---- MODULE Spec2Model ----
(***************************************************************************)
(* A model of ship.py (zhafen/ship): registries (Fleet) of deliverables    *)
(* (Ship), their evaluation operations and the buy-in / sensitivity        *)
(* estimates computed from them.                                           *)
(*                                                                         *)
(* Numbers are exact rationals <<n, d>> (d > 0, lowest terms) extended     *)
(* with the IEEE values the numpy arithmetic of the code can produce:      *)
(* NaN == <<0, 0>> and the infinities <<1, 0>>, <<-1, 0>>.                 *)
(* A Python dict (and verdict.Dict, which wraps one) is a sequence of      *)
(* <<key, value>> pairs in insertion order.                                *)
(* An operation that can raise returns [exc, val]: exc = "" when it        *)
(* returns val, else the name of the exception.                            *)
(***************************************************************************)
EXTENDS Integers, Sequences, FiniteSets, TLC

VARIABLES
    criteria,        \* registry -> the Fleet's default criteria (a set)
    critical_value,  \* registry -> the Fleet's critical_value
    set_order,       \* the order in which this process iterates a set of strings
    ships,           \* registry -> Fleet.ships: sequence of <<name, object id>>
    heap,            \* object id -> the Ship object
    nextId,          \* the next fresh object id
    schedule,        \* the shipbuilding.Schedule object, once one is constructed
    ret              \* the last operation: what was called and what it returned

config == <<criteria, critical_value, set_order, schedule>>

vars == <<criteria, critical_value, set_order, ships, heap, nextId, schedule, ret>>

----------------------------------------------------------------------------
\* Bounds of the model.

\* Number of Ship objects ever allocated (construct_ship, copy.deepcopy).
MaxObjects == 2
\* Length of a ship's 'variables held constant' list.
MaxHeld == 2
\* Number of keyword arguments of one evaluate / send_to_market call.
MaxKwargs == 2
\* Number of answers typed during one call of a ship's interactive method.
MaxPrompts == 2
\* Number of answers typed during one call of a registry's batch method.
MaxAnswers == 3

----------------------------------------------------------------------------
\* Rational arithmetic with NaN and infinities.

RECURSIVE GCD(_, _)
GCD(a, b) ==
    IF b = 0 THEN a ELSE GCD(b, a % b)

Abs(x) ==
    IF x < 0 THEN -x ELSE x

Sign(x) ==
    IF x < 0 THEN -1 ELSE IF x > 0 THEN 1 ELSE 0

\* n/d in lowest terms, d > 0.
Rat(n, d) ==
    LET g == GCD(Abs(n), Abs(d))
        s == IF d < 0 THEN -1 ELSE 1
    IN  IF n = 0 THEN <<0, 1>> ELSE <<s * (n \div g), s * (d \div g)>>

NaN == <<0, 0>>
Zero == <<0, 1>>
One == <<1, 1>>
Ten == <<10, 1>>

IsNaN(a) == a = NaN
IsInf(a) == a[2] = 0 /\ a[1] # 0
IsFinite(a) == a[2] > 0
IsZero(a) == a = Zero

RMul(a, b) ==
    IF IsNaN(a) \/ IsNaN(b) THEN NaN
    ELSE IF IsInf(a) \/ IsInf(b) THEN <<Sign(a[1]) * Sign(b[1]), 0>>
    ELSE Rat(a[1] * b[1], a[2] * b[2])

RAdd(a, b) ==
    IF IsNaN(a) \/ IsNaN(b) THEN NaN
    ELSE IF IsInf(a) /\ IsInf(b) THEN (IF a = b THEN a ELSE NaN)
    ELSE IF IsInf(a) THEN a
    ELSE IF IsInf(b) THEN b
    ELSE Rat(a[1] * b[2] + b[1] * a[2], a[2] * b[2])

RNeg(a) == <<-a[1], a[2]>>

RSub(a, b) == RAdd(a, RNeg(b))

\* numpy float64 division: x/0 is inf (nan for 0/0), with a warning, no exception.
RDiv(a, b) ==
    IF IsNaN(a) \/ IsNaN(b) THEN NaN
    ELSE IF IsInf(b) THEN (IF IsInf(a) THEN NaN ELSE Zero)
    ELSE IF IsZero(b) THEN <<Sign(a[1]), 0>>
    ELSE IF IsInf(a) THEN <<Sign(a[1]) * Sign(b[1]), 0>>
    ELSE Rat(a[1] * b[2], a[2] * b[1])

\* a > b as IEEE compares: FALSE when either is NaN.
RGt(a, b) ==
    IF IsNaN(a) \/ IsNaN(b) THEN FALSE
    ELSE IF IsInf(a) \/ IsInf(b)
         THEN (IF IsInf(a) THEN a[1] ELSE 0) > (IF IsInf(b) THEN b[1] ELSE 0)
    ELSE a[1] * b[2] > b[1] * a[2]

RGe(a, b) == (a = b /\ ~IsNaN(a)) \/ RGt(a, b)

----------------------------------------------------------------------------
\* Python dicts as sequences of <<key, value>> pairs in insertion order.

Keys(d) == [i \in 1..Len(d) |-> d[i][1]]

KeySet(d) == {d[i][1] : i \in 1..Len(d)}

Has(d, k) == k \in KeySet(d)

Get(d, k) == d[CHOOSE i \in 1..Len(d) : d[i][1] = k][2]

\* d[k] = v: an existing key keeps its position, a new one is appended.
Put(d, k, v) ==
    IF Has(d, k)
    THEN [i \in 1..Len(d) |-> IF d[i][1] = k THEN <<k, v>> ELSE d[i]]
    ELSE Append(d, <<k, v>>)

\* del d[k]
Del(d, k) ==
    LET keep(p) == p[1] # k
    IN  SelectSeq(d, keep)

\* A dict replaced by the keyword arguments instead of merged with them.
UpdateReplacing(d, kw) == kw

\* d.update( kw )
RECURSIVE Update(_, _)
Update(d, kw) ==
    IF kw = <<>> THEN d
    ELSE Update(Put(d, kw[1][1], kw[1][2]), Tail(kw))

\* The sequences over S without repetition, in every order.
Perms(S) ==
    {s \in [1..Cardinality(S) -> S] : \A i, j \in 1..Cardinality(S) : s[i] = s[j] => i = j}

\* list( S ) for a set S of strings.  The order follows the strings' hashes, which
\* are drawn when the process starts: any order, the same for the whole run.
ListOfSet(S, order) ==
    LET member(x) == x \in S
    IN  SelectSeq(order, member)

\* The keyword-argument dicts of at most n of the <<key, value>> pairs P, in
\* every order, no key twice.
KwArgs(P, n) ==
    UNION {{s \in [1..m -> P] : \A i, j \in 1..m : s[i][1] = s[j][1] => i = j} : m \in 0..n}

\* numpy.prod of the values, 1.0 for none.
RECURSIVE ProdValues(_)
ProdValues(d) ==
    IF d = <<>> THEN One ELSE RMul(d[1][2], ProdValues(Tail(d)))

----------------------------------------------------------------------------
\* Program constants and reference data.

\* MODIFIABLE_VARIABLES, in the order the code iterates them.
MODIFIABLE_VARIABLES == <<"criteria values", "markets", "market segments">>

\* Fleet.__init__'s default critical_value (8.).
DefaultCriticalValue == 8

\* The fixed divisor estimate_quality and estimate_buyin_change scale by (10.).
ScaleDivisor == 10

\* numpy.isclose's default absolute tolerance is 1e-8 = 1 / IsCloseAtolInv.
IsCloseAtolInv == 100000000

\* The names a registry is asked about.
Registries == {"fleet", "dock"}
ShipNames == {"A", "B"}
NoName == "None"

\* The criteria of the tests (default_criteria), and one a caller adds.
DefaultCriteria == {"functionality", "understandability"}

\* Markets table (markets.csv): rows are markets, columns are market segments,
\* a cell is the number of members of the segment in the market.  Every Ship
\* reads the file when it is constructed (FileMarkets); its table (Ship.markets)
\* is a public attribute that callers extend afterwards.
MarketNames == {"m1", "m2"}
FileMarkets == {"m1"}
SegmentColumns == <<"s1", "s2">>
SegmentNames == {SegmentColumns[i] : i \in 1..Len(SegmentColumns)}

MarketsTable(m_name, ms_name) ==
    CASE m_name = "m1" /\ ms_name = "s1" -> Rat(1, 1)
      [] m_name = "m1" /\ ms_name = "s2" -> Rat(2, 1)
      [] m_name = "m2" /\ ms_name = "s1" -> Rat(0, 1)
      [] OTHER -> Rat(3, 1)

\* Market Segments table (market_segments.csv): Weight and Default Compatibility.
Weight(ms_name) ==
    IF ms_name = "s1" THEN Rat(2, 1) ELSE Rat(1, 1)

DefaultCompatibility(ms_name) ==
    IF ms_name = "s1" THEN Rat(1, 2) ELSE Rat(1, 1)

----------------------------------------------------------------------------
\* Ship objects.

\* Ship.__init__: every criterion starts at 0., the stores start empty.  The
\* 'variables held constant' key is created by the first hold_variable_constant;
\* every reader treats its absence as the empty list, which is how it starts here.
NewShip(name, crit, cv, description, category, table) ==
    [ name |-> name,
      critical_value |-> cv,
      markets |-> table,
      data |-> [ criteria_values |-> [i \in 1..Len(crit) |-> <<crit[i], Zero>>],
                 market_segments |-> <<>>,
                 markets |-> <<>>,
                 held |-> <<>>,
                 attrs |-> [ name |-> name,
                             description |-> description,
                             category |-> category ] ] ]

\* An estimate's outcome: the value returned, or the exception raised.
Ok(v) == [exc |-> "", val |-> v]
Raise(e) == [exc |-> e, val |-> NaN]

\* Ship.estimate_quality: the product of the criteria values, each divided by 10.
Scaled(d) == [i \in 1..Len(d) |-> <<d[i][1], RDiv(d[i][2], Rat(ScaleDivisor, 1))>>]

\* A quality that stops at the first criterion.
estimate_quality_of_first(s) ==
    ProdValues(Scaled(SubSeq(s.data.criteria_values, 1, 1)))

estimate_quality(s) == ProdValues(Scaled(s.data.criteria_values))

\* Ship.estimate_market_segment_buyin: B_ik = q_k * b_i * f_ik.  The Weight lookup
\* raises for a segment that is not in the table, the store lookup for a segment
\* the ship has no entry for; use_default_for_missing_values is never read.
estimate_market_segment_buyin(s, ms_name) ==
    IF ms_name \notin SegmentNames THEN Raise("KeyError")
    ELSE IF ~Has(s.data.market_segments, ms_name) THEN Raise("KeyError")
    ELSE Ok(RMul(RMul(estimate_quality(s), Weight(ms_name)),
                 Get(s.data.market_segments, ms_name)))

\* A loop that stops after the first column of the row.
SumFirstSegment(s, m_name, cols) ==
    IF cols = <<>> THEN Ok(Zero)
    ELSE LET B_ik == estimate_market_segment_buyin(s, cols[1])
         IN  IF B_ik.exc # "" THEN B_ik
             ELSE Ok(RMul(MarketsTable(m_name, cols[1]), B_ik.val))

\* The loop of estimate_market_buyin and of estimate_buyin_change('markets'):
\* sum of n_ij * B_ik over the columns of the market's row, in column order.
RECURSIVE SumSegments(_, _, _)
SumSegments(s, m_name, cols) ==
    IF cols = <<>> THEN Ok(Zero)
    ELSE LET B_ik == estimate_market_segment_buyin(s, cols[1])
             rest == SumSegments(s, m_name, Tail(cols))
         IN  IF B_ik.exc # "" THEN B_ik
             ELSE IF rest.exc # "" THEN rest
             ELSE Ok(RAdd(RMul(MarketsTable(m_name, cols[1]), B_ik.val), rest.val))

\* Ship.estimate_market_buyin: B_jk = F_jk * sum( n_ij * B_ik ).
estimate_market_buyin(s, m_name) ==
    IF m_name \notin s.markets THEN Raise("KeyError")
    ELSE LET total == SumSegments(s, m_name, SegmentColumns)
         IN  IF total.exc # "" THEN total
             ELSE IF ~Has(s.data.markets, m_name) THEN Raise("KeyError")
             ELSE Ok(RMul(total.val, Get(s.data.markets, m_name)))

\* The loop of estimate_buyin over the given market names.
RECURSIVE SumMarkets(_, _)
SumMarkets(s, names) ==
    IF names = <<>> THEN Ok(Zero)
    ELSE LET B_jk == estimate_market_buyin(s, names[1])
             rest == SumMarkets(s, Tail(names))
         IN  IF B_jk.exc # "" THEN B_jk
             ELSE IF rest.exc # "" THEN rest
             ELSE Ok(RAdd(B_jk.val, rest.val))

\* The sum taken over every row of the ship's Markets table instead.
estimate_buyin_over_table(s) ==
    SumMarkets(s, CHOOSE names \in Perms(s.markets) : TRUE)

\* Ship.estimate_buyin: B_k = sum( B_jk ) over the keys of the 'markets' store.
estimate_buyin(s) == SumMarkets(s, Keys(s.data.markets))

----------------------------------------------------------------------------
\* Sensitivity estimates.

\* The variable kinds estimate_buyin_change accepts, and their full names.
VariableKinds ==
    { "quality", "q", "q_k", "criteria values", "c", "c_m",
      "markets", "F", "F_jk", "market segments", "f", "f_ik" }

FullName(variable) ==
    IF variable \in {"quality", "q", "q_k"} THEN "quality"
    ELSE IF variable \in {"criteria values", "c", "c_m"} THEN "criteria values"
    ELSE IF variable \in {"markets", "F", "F_jk"} THEN "markets"
    ELSE IF variable \in {"market segments", "f", "f_ik"} THEN "market segments"
    ELSE variable

\* [ variable, name ] in self.data['variables held constant']
IsHeld(s, variable, name) ==
    \E i \in 1..Len(s.data.held) : s.data.held[i] = <<variable, name>>

\* numpy.isclose( x, 0. ): |x| <= atol, for a finite x.
IsCloseToZero(x) ==
    IsFinite(x) /\ Abs(x[1]) <= x[2] \div IsCloseAtolInv

\* dB * ( 1 - X ) when dt, else dB.
DiminishingReturns(dB, X, dt) ==
    IF dt THEN RMul(dB, RSub(One, X)) ELSE dB

\* The 'quality' branch: B_k / q_k.
ChangeQuality(s, dt) ==
    LET B_k == estimate_buyin(s)
        q_k == estimate_quality(s)
    IN  IF B_k.exc # "" THEN B_k
        ELSE Ok(DiminishingReturns(RDiv(B_k.val, q_k), q_k, dt))

\* The 'criteria values' branch without its unconstrained scenario: always B_k / c_m.
ChangeCriteriaUnguarded(s, name, dt) ==
    LET B_k == estimate_buyin(s)
    IN  IF B_k.exc # "" THEN B_k
        ELSE IF ~Has(s.data.criteria_values, name) THEN Raise("KeyError")
        ELSE Ok(DiminishingReturns(
                    RDiv(B_k.val, RDiv(Get(s.data.criteria_values, name), Rat(ScaleDivisor, 1))),
                    RDiv(Get(s.data.criteria_values, name), Rat(ScaleDivisor, 1)), dt))

\* The 'criteria values' branch: B_k / c_m, and 0 when both are about 0.
ChangeCriteria(s, name, dt) ==
    LET B_k == estimate_buyin(s)
    IN  IF B_k.exc # "" THEN B_k
        ELSE IF ~Has(s.data.criteria_values, name) THEN Raise("KeyError")
        ELSE LET c_m == RDiv(Get(s.data.criteria_values, name), Rat(ScaleDivisor, 1))
             IN  IF IsCloseToZero(B_k.val) /\ IsCloseToZero(c_m) THEN Ok(Zero)
                 ELSE Ok(DiminishingReturns(RDiv(B_k.val, c_m), c_m, dt))

\* The derivative the docstring gives for a market, B_jk / F_jk.
ChangeMarketsByBuyin(s, name, dt) ==
    LET B_jk == estimate_market_buyin(s, name)
    IN  IF B_jk.exc # "" THEN B_jk
        ELSE Ok(DiminishingReturns(RDiv(B_jk.val, Get(s.data.markets, name)),
                                   Get(s.data.markets, name), dt))

\* The 'markets' branch: sum( n_ij * B_ik ) over the row of the market.
ChangeMarkets(s, name, dt) ==
    IF name \notin s.markets THEN Raise("KeyError")
    ELSE LET dB == SumSegments(s, name, SegmentColumns)
         IN  IF dB.exc # "" THEN dB
             ELSE IF ~dt THEN dB
             ELSE IF ~Has(s.data.markets, name) THEN Raise("KeyError")
             ELSE Ok(DiminishingReturns(dB.val, Get(s.data.markets, name), dt))

\* sum( F_jk * n_ij ) over the items of the 'markets' store.
RECURSIVE SumCompatibility(_, _, _)
SumCompatibility(s, items, ms_name) ==
    IF items = <<>> THEN Ok(Zero)
    ELSE IF items[1][1] \notin s.markets THEN Raise("KeyError")
    ELSE LET rest == SumCompatibility(s, Tail(items), ms_name)
         IN  IF rest.exc # "" THEN rest
             ELSE Ok(RAdd(RMul(items[1][2], MarketsTable(items[1][1], ms_name)), rest.val))

\* The derivative the docstring gives for a segment, B_ik / f_ik * sum( F_jk * n_ij ).
ChangeMarketSegmentsByBuyin(s, name, dt) ==
    LET B_ik == estimate_market_segment_buyin(s, name)
        sum_term == SumCompatibility(s, s.data.markets, name)
    IN  IF B_ik.exc # "" THEN B_ik
        ELSE IF sum_term.exc # "" THEN sum_term
        ELSE Ok(DiminishingReturns(
                    RMul(RDiv(B_ik.val, Get(s.data.market_segments, name)), sum_term.val),
                    Get(s.data.market_segments, name), dt))

\* The 'market segments' branch: q_k * b_i * sum( F_jk * n_ij ).
ChangeMarketSegments(s, name, dt) ==
    IF name \notin SegmentNames THEN Raise("KeyError")
    ELSE LET sum_term == SumCompatibility(s, s.data.markets, name)
         IN  IF sum_term.exc # "" THEN sum_term
             ELSE LET dB == RMul(RMul(estimate_quality(s), Weight(name)), sum_term.val)
                  IN  IF ~dt THEN Ok(dB)
                      ELSE IF ~Has(s.data.market_segments, name) THEN Raise("KeyError")
                      ELSE Ok(DiminishingReturns(dB, Get(s.data.market_segments, name), dt))

\* Ship.estimate_buyin_change( variable, name, dt ).
estimate_buyin_change(s, variable, name, dt) ==
    LET v == FullName(variable)
    IN  IF IsHeld(s, v, name) THEN Ok(Zero)
        ELSE IF v = "quality" THEN ChangeQuality(s, dt)
        ELSE IF v = "criteria values" THEN ChangeCriteria(s, name, dt)
        ELSE IF v = "markets" THEN ChangeMarkets(s, name, dt)
        ELSE IF v = "market segments" THEN ChangeMarketSegments(s, name, dt)
        ELSE Raise("KeyError")

\* self[variable] for a modifiable variable.
Store(s, variable) ==
    IF variable = "criteria values" THEN s.data.criteria_values
    ELSE IF variable = "markets" THEN s.data.markets
    ELSE s.data.market_segments

\* One kind of estimate_buyin_change_landscape: the derivative for every key of
\* the ship's store of that kind, in the store's order.
LandscapeOf(s, variable, dt) ==
    LET d == Store(s, variable)
    IN  [i \in 1..Len(d) |-> <<d[i][1], estimate_buyin_change(s, variable, d[i][1], dt)>>]

\* Ship.estimate_buyin_change_landscape raises what any of its estimates raises.
LandscapeRaises(s, dt) ==
    \/ estimate_buyin_change(s, "q", NoName, dt).exc # ""
    \/ \E k \in 1..Len(MODIFIABLE_VARIABLES) :
          \E i \in 1..Len(Store(s, MODIFIABLE_VARIABLES[k])) :
              LandscapeOf(s, MODIFIABLE_VARIABLES[k], dt)[i][2].exc # ""

\* A keymax that does not compare: the first pair.
KeyFirst(d) == d[1]

\* verdict.Dict.keymax over <<key, value>> pairs: the first of the largest values.
RECURSIVE KeyMaxFrom(_, _)
KeyMaxFrom(best, d) ==
    IF d = <<>> THEN best
    ELSE KeyMaxFrom(IF RGt(d[1][2], best[2]) THEN d[1] ELSE best, Tail(d))

keymax(d) == KeyMaxFrom(d[1], Tail(d))

\* The values of one kind of the landscape, as <<key, value>> pairs.
LandscapeValues(l) == [i \in 1..Len(l) |-> <<l[i][1], l[i][2].val>>]

\* One pass of the loop of estimate_buyin_change_max: an empty kind is skipped,
\* another adds v_maxs[( variable, v_name )] = value for its maximum.
KindMaximum(variable, best) == << <<variable, best[1]>>, best[2] >>

\* A loop that skips every kind, empty or not.
KindSkipped(variable, l) == <<>>

KindEntry(variable, l) ==
    IF Len(l) = 0 THEN <<>> ELSE <<KindMaximum(variable, keymax(LandscapeValues(l)))>>

\* v_maxs of estimate_buyin_change_max: the maximum of every non-empty kind.
RECURSIVE KindMaxima(_, _, _)
KindMaxima(s, kinds, dt) ==
    IF kinds = <<>> THEN <<>>
    ELSE KindEntry(kinds[1], LandscapeOf(s, kinds[1], dt)) \o KindMaxima(s, Tail(kinds), dt)

NotEnoughInfo == <<"not enough info">>

\* The end of estimate_buyin_change_max: the sentinel for an empty v_maxs, its
\* maximum otherwise.
MaxResult(best) == [exc |-> "", key |-> best[1], val |-> best[2]]

MaxOf(v_maxs) ==
    IF Len(v_maxs) = 0
    THEN [exc |-> "", key |-> NotEnoughInfo, val |-> Zero]
    ELSE MaxResult(keymax(v_maxs))

\* The loops of estimate_buyin_landscape: landscape['markets'] has the market
\* buy-in of every key of the ship's 'markets' store, landscape['market segments']
\* the segment buy-in of every row of the Market Segments table.
MarketBuyins(s) ==
    [i \in 1..Len(s.data.markets) |->
        <<s.data.markets[i][1], estimate_market_buyin(s, s.data.markets[i][1])>>]

SegmentBuyins(s) ==
    [i \in 1..Len(SegmentColumns) |->
        <<SegmentColumns[i], estimate_market_segment_buyin(s, SegmentColumns[i])>>]

\* Ship.estimate_buyin_landscape(): the Dict returned, or the exception raised
\* by one of the estimates.
estimate_buyin_landscape(s) ==
    IF estimate_buyin(s).exc # "" THEN Raise(estimate_buyin(s).exc)
    ELSE IF \E i \in 1..Len(s.data.markets) : MarketBuyins(s)[i][2].exc # ""
    THEN Raise("KeyError")
    ELSE IF \E i \in 1..Len(SegmentColumns) : SegmentBuyins(s)[i][2].exc # ""
    THEN Raise("KeyError")
    ELSE Ok([ quality |-> estimate_quality(s),
              buyin |-> estimate_buyin(s).val,
              criteria_values |-> s.data.criteria_values,
              markets |-> LandscapeValues(MarketBuyins(s)),
              market_segments |-> LandscapeValues(SegmentBuyins(s)) ])

\* Ship.estimate_buyin_change_max( dt ): [exc, key, val].
estimate_buyin_change_max(s, dt) ==
    IF LandscapeRaises(s, dt) THEN [exc |-> "KeyError", key |-> <<>>, val |-> NaN]
    ELSE MaxOf(KindMaxima(s, MODIFIABLE_VARIABLES, dt))

----------------------------------------------------------------------------
\* State.

Ret(op, reg, name, args, out) ==
    [op |-> op, reg |-> reg, ship |-> name, args |-> args,
     exc |-> out.exc, val |-> out.val, key |-> <<>>]

RetKey(op, reg, name, args, out) ==
    [op |-> op, reg |-> reg, ship |-> name, args |-> args,
     exc |-> out.exc, val |-> out.val, key |-> out.key]

\* No Schedule has been constructed.
NoSchedule == [made |-> FALSE]

\* The orders a process can iterate its sets of criteria and of market segments in.
SetOrders == {c \o g : c \in Perms(DefaultCriteria), g \in Perms(SegmentNames)}

\* The order of a process whose hashes sort the names alphabetically.
SortedOrder == {<<"functionality", "understandability", "s1", "s2">>}

\* Fleet.__init__( criteria, critical_value ): no ships.  The registry "fleet"
\* is constructed with any of the given criteria and critical values, "dock" as
\* the tests construct theirs.
InitWith(criteriaOptions, criticalValues, orders) ==
    /\ set_order \in orders
    /\ \E c \in criteriaOptions :
          criteria = [f \in Registries |-> IF f = "fleet" THEN c ELSE DefaultCriteria]
    /\ \E v \in criticalValues :
          critical_value = [f \in Registries |->
                               IF f = "fleet" THEN v ELSE Rat(DefaultCriticalValue, 1)]
    /\ ships = [f \in Registries |-> <<>>]
    /\ heap = <<>>
    /\ nextId = 1
    /\ schedule = NoSchedule
    /\ ret = Ret("init", "", "", <<>>, Ok(Zero))

\* fleet[name], for a name the fleet holds.
ShipOf(f, name) == heap[Get(ships[f], name)]

\* The objects some registry refers to; the others are garbage.
Live(sh) == UNION {{sh[f][i][2] : i \in 1..Len(sh[f])} : f \in Registries}

Collect(h, sh) == [o \in (DOMAIN h) \cap Live(sh) |-> h[o]]

SetData(f, name, field, value) ==
    [heap EXCEPT ![Get(ships[f], name)].data[field] = value]

----------------------------------------------------------------------------
\* Registry operations.

\* construct_ship without its assertion: an existing ship is replaced.
ConstructShipUnchecked(f, name, extra, description, category) ==
    /\ nextId <= MaxObjects
    /\ heap' = Collect(heap @@ (nextId :> NewShip(name, ListOfSet(criteria[f] \cup extra, set_order),
                                                   critical_value[f], description, category,
                                                   FileMarkets)),
                        [ships EXCEPT ![f] = Put(@, name, nextId)])
    /\ ships' = [ships EXCEPT ![f] = Put(@, name, nextId)]
    /\ nextId' = nextId + 1
    /\ ret' = Ret("construct_ship", f, name, <<extra, description, category>>, Ok(Zero))
    /\ UNCHANGED config

\* Fleet.construct_ship( name, criteria, description=, category= ).
ConstructShip(f, name, extra, description, category) ==
    IF Has(ships[f], name)
    THEN /\ ret' = Ret("construct_ship", f, name, <<extra, description, category>>,
                       Raise("AssertionError"))
         /\ UNCHANGED <<config, ships, heap, nextId>>
    ELSE /\ nextId <= MaxObjects
         /\ heap' = heap @@ (nextId :> NewShip(name, ListOfSet(criteria[f] \cup extra, set_order),
                                                critical_value[f], description, category,
                                                FileMarkets))
         /\ ships' = [ships EXCEPT ![f] = Put(@, name, nextId)]
         /\ nextId' = nextId + 1
         /\ ret' = Ret("construct_ship", f, name, <<extra, description, category>>, Ok(Zero))
         /\ UNCHANGED config

\* A move that stores the source object itself.
AliasRef(src, fresh) == src

\* copy.deepcopy( other_fleet[name] ): the reference to a new object.
DeepCopyRef(src, fresh) == fresh

\* Fleet.move_ship( name, other_fleet, new_name ) as a function of the state:
\* the exception raised (if any) and the registries and objects it leaves.
MoveOutcome(f, name, other, new_name) ==
    LET nn == IF new_name = NoName THEN name ELSE new_name
    IN  IF ~Has(ships[other], name)
        THEN [exc |-> "KeyError", ships |-> ships, heap |-> heap, nextId |-> nextId]
        ELSE LET src == Get(ships[other], name)
                 ref == DeepCopyRef(src, nextId)
                 heap1 == IF ref \in DOMAIN heap THEN heap ELSE heap @@ (ref :> heap[src])
                 ships1 == [ships EXCEPT ![f] = Put(@, nn, ref)]
                 ships2 == [ships1 EXCEPT ![other] = Del(@, name)]
             IN  IF ~Has(ships2[f], nn)
                 THEN [exc |-> "KeyError", ships |-> ships2,
                       heap |-> Collect(heap1, ships2), nextId |-> nextId + 1]
                 ELSE [exc |-> "", ships |-> ships2,
                       heap |-> Collect([heap1 EXCEPT ![ref].name = nn], ships2),
                       nextId |-> nextId + 1]

MoveShip(f, name, other, new_name) ==
    LET out == MoveOutcome(f, name, other, new_name)
    IN  /\ Has(ships[other], name) => nextId <= MaxObjects
        /\ ships' = out.ships
        /\ heap' = out.heap
        /\ nextId' = out.nextId
        /\ ret' = Ret("move_ship", f, name, <<other, new_name>>, [exc |-> out.exc, val |-> Zero])
        /\ UNCHANGED config

\* A launch_ship that starts the list anew: what was held in the docks is lost.
HoldAllAnew(held, variable, keys) == [i \in 1..Len(keys) |-> <<variable, keys[i]>>]

\* launch_ship without its loop: nothing is held constant.
HoldNone(held, variable, keys) == held

\* The loop of launch_ship: hold every key of the store constant.
RECURSIVE HoldAll(_, _, _)
HoldAll(held, variable, keys) ==
    IF keys = <<>> THEN held
    ELSE HoldAll(Append(held, <<variable, keys[1]>>), variable, Tail(keys))

\* Fleet.launch_ship( name, dock_fleet ).
LaunchShip(f, name, dock) ==
    LET out == MoveOutcome(f, name, dock, NoName)
        o == Get(out.ships[f], name)
        d == out.heap[o].data
        held1 == HoldAll(d.held, "criteria values", Keys(d.criteria_values))
        held2 == HoldAll(held1, "market segments", Keys(d.market_segments))
    IN  /\ Has(ships[dock], name) => nextId <= MaxObjects
        /\ ships' = out.ships
        /\ heap' = IF out.exc # "" THEN out.heap
                   ELSE [out.heap EXCEPT ![o].data.held = held2]
        /\ nextId' = out.nextId
        /\ ret' = Ret("launch_ship", f, name, <<dock>>, [exc |-> out.exc, val |-> Zero])
        /\ UNCHANGED config

----------------------------------------------------------------------------
\* Ship operations, on the ship a registry holds under a name.

\* Ship.hold_variable_constant( variable, name ).
HoldVariableConstant(f, name, variable, v_name) ==
    /\ Has(ships[f], name)
    /\ Len(ShipOf(f, name).data.held) < MaxHeld
    /\ heap' = SetData(f, name, "held", Append(ShipOf(f, name).data.held, <<variable, v_name>>))
    /\ ret' = Ret("hold_variable_constant", f, name, <<variable, v_name>>, Ok(Zero))
    /\ UNCHANGED <<config, ships, nextId>>

\* Ship.evaluate( **criteria_values ), request_user_input False.
Evaluate(f, name, criteria_values) ==
    /\ Has(ships[f], name)
    /\ LET updated == Update(ShipOf(f, name).data.criteria_values, criteria_values)
       IN  /\ heap' = SetData(f, name, "criteria_values", updated)
           /\ ret' = Ret("evaluate", f, name, <<criteria_values>>, Ok(ProdValues(updated)))
    /\ UNCHANGED <<config, ships, nextId>>

\* evaluate_market_segments without its back-filling: no default is added.
DefaultsNone(order) == <<>>

\* The defaults evaluate_market_segments adds for the keys in neither the store
\* nor the call, in the order the set of keys is iterated.
Defaults(order) == [i \in 1..Len(order) |-> <<order[i], DefaultCompatibility(order[i])>>]

\* Ship.evaluate_market_segments( **compatibility_values ), request_user_input False.
EvaluateMarketSegments(f, name, compatibility_values) ==
    /\ Has(ships[f], name)
    /\ LET store == ShipOf(f, name).data.market_segments
           used_keys == KeySet(store) \cup SegmentNames
           missing == {k \in used_keys : ~Has(store, k) /\ ~Has(compatibility_values, k)}
       IN  heap' = SetData(f, name, "market_segments",
                           Update(store, compatibility_values
                                         \o Defaults(ListOfSet(missing, set_order))))
    /\ ret' = Ret("evaluate_market_segments", f, name, <<compatibility_values>>, Ok(Zero))
    /\ UNCHANGED <<config, ships, nextId>>

\* Ship.send_to_market( **markets ), request_user_input False.
SendToMarket(f, name, market_values) ==
    /\ Has(ships[f], name)
    /\ heap' = SetData(f, name, "markets", Update(ShipOf(f, name).data.markets, market_values))
    /\ ret' = Ret("send_to_market", f, name, <<market_values>>, Ok(Zero))
    /\ UNCHANGED <<config, ships, nextId>>

----------------------------------------------------------------------------
\* The interactive paths (request_user_input True).  The answers typed at the
\* prompts are a sequence of strings, consumed from its head; input() raises
\* EOFError when none is left.

\* The exit code an interactive call returns; ret.key holds it.
ExitCode == <<"q">>

\* float( value ) for a typed string.
Float(value) ==
    IF value = "0" THEN Ok(Zero)
    ELSE IF value = "0.5" THEN Ok(Rat(1, 2))
    ELSE IF value = "5" THEN Ok(Rat(5, 1))
    ELSE Raise("ValueError")

\* What a prompt loop leaves: the exception raised (if any), whether 'q' was
\* typed, the store, the keyword arguments and the answers not yet consumed.
Prompted(exc, quit, store, kw, answers) ==
    [exc |-> exc, quit |-> quit, store |-> store, kw |-> kw, answers |-> answers]

\* The prompt loop of Ship.evaluate over the keys the store had at the call.
RECURSIVE EvaluateLoop(_, _, _, _)
EvaluateLoop(keys, store, kw, answers) ==
    IF keys = <<>> THEN Prompted("", FALSE, store, kw, answers)
    ELSE IF Has(kw, keys[1]) THEN EvaluateLoop(Tail(keys), store, kw, answers)
    ELSE IF answers = <<>> THEN Prompted("EOFError", FALSE, store, kw, answers)
    ELSE IF answers[1] = "" THEN EvaluateLoop(Tail(keys), store, kw, Tail(answers))
    ELSE IF answers[1] = "q" THEN Prompted("", TRUE, store, kw, Tail(answers))
    ELSE IF answers[1] = "d"
         THEN EvaluateLoop(Tail(keys), Del(store, keys[1]), kw, Tail(answers))
    ELSE IF Float(answers[1]).exc # ""
         THEN Prompted(Float(answers[1]).exc, FALSE, store, kw, Tail(answers))
    ELSE EvaluateLoop(Tail(keys), store, Put(kw, keys[1], Float(answers[1]).val),
                      Tail(answers))

\* The prompt loop of Ship.evaluate_market_segments over used_keys.
RECURSIVE SegmentsLoop(_, _, _, _)
SegmentsLoop(keys, store, kw, answers) ==
    IF keys = <<>> THEN Prompted("", FALSE, store, kw, answers)
    ELSE IF Has(kw, keys[1]) THEN SegmentsLoop(Tail(keys), store, kw, answers)
    ELSE IF answers = <<>> THEN Prompted("EOFError", FALSE, store, kw, answers)
    ELSE IF answers[1] = ""
         THEN SegmentsLoop(Tail(keys), store,
                           Put(kw, keys[1], IF Has(store, keys[1]) THEN Get(store, keys[1])
                                            ELSE DefaultCompatibility(keys[1])),
                           Tail(answers))
    ELSE IF answers[1] = "q" THEN Prompted("", TRUE, store, kw, Tail(answers))
    ELSE IF answers[1] = "d"
         THEN IF Has(store, keys[1])
              THEN SegmentsLoop(Tail(keys), Del(store, keys[1]), kw, Tail(answers))
              ELSE Prompted("KeyError", FALSE, store, kw, Tail(answers))
    ELSE IF Float(answers[1]).exc # ""
         THEN Prompted(Float(answers[1]).exc, FALSE, store, kw, Tail(answers))
    ELSE SegmentsLoop(Tail(keys), store, Put(kw, keys[1], Float(answers[1]).val),
                      Tail(answers))

\* The prompt loop of Ship.send_to_market over the store's items.  'd' runs
\* del self['market'][key], and the ship's data has no 'market' key.
RECURSIVE MarketsLoop(_, _, _, _)
MarketsLoop(keys, store, kw, answers) ==
    IF keys = <<>> THEN Prompted("", FALSE, store, kw, answers)
    ELSE IF Has(kw, keys[1]) THEN MarketsLoop(Tail(keys), store, kw, answers)
    ELSE IF answers = <<>> THEN Prompted("EOFError", FALSE, store, kw, answers)
    ELSE IF answers[1] = "" THEN MarketsLoop(Tail(keys), store, kw, Tail(answers))
    ELSE IF answers[1] = "q" THEN Prompted("", TRUE, store, kw, Tail(answers))
    ELSE IF answers[1] = "d" THEN Prompted("KeyError", FALSE, store, kw, Tail(answers))
    ELSE IF Float(answers[1]).exc # ""
         THEN Prompted(Float(answers[1]).exc, FALSE, store, kw, Tail(answers))
    ELSE MarketsLoop(Tail(keys), store, Put(kw, keys[1], Float(answers[1]).val),
                     Tail(answers))

\* An interactive call that stores what it has collected however it ends.
StoredAlways(p) == Update(p.store, p.kw)

\* The end of an interactive call: nothing more is stored after an exception or
\* 'q', else the store is updated with the keyword arguments and typed values.
Stored(p) == IF p.exc # "" \/ p.quit THEN p.store ELSE Update(p.store, p.kw)

\* What an interactive call returns: [exc, val, key], key the exit code if typed.
Returned(p, val) ==
    [exc |-> p.exc, val |-> IF p.exc # "" \/ p.quit THEN Zero ELSE val,
     key |-> IF p.exc = "" /\ p.quit THEN ExitCode ELSE <<>>]

\* Ship.evaluate( True, **criteria_values ) with the answers typed.
EvaluateOutcome(s, kw, answers) ==
    EvaluateLoop(Keys(s.data.criteria_values), s.data.criteria_values, kw, answers)

EvaluateInput(f, name, criteria_values, answers) ==
    /\ Has(ships[f], name)
    /\ LET p == EvaluateOutcome(ShipOf(f, name), criteria_values, answers)
       IN  /\ p.answers = <<>>
           /\ heap' = SetData(f, name, "criteria_values", Stored(p))
           /\ ret' = RetKey("evaluate_input", f, name, <<criteria_values, answers>>,
                            Returned(p, ProdValues(Stored(p))))
    /\ UNCHANGED <<config, ships, nextId>>

\* Ship.evaluate_market_segments( True, **compatibility_values ).
SegmentsOutcome(s, kw, answers) ==
    SegmentsLoop(ListOfSet(KeySet(s.data.market_segments) \cup SegmentNames, set_order),
                 s.data.market_segments, kw, answers)

EvaluateMarketSegmentsInput(f, name, compatibility_values, answers) ==
    /\ Has(ships[f], name)
    /\ LET p == SegmentsOutcome(ShipOf(f, name), compatibility_values, answers)
       IN  /\ p.answers = <<>>
           /\ heap' = SetData(f, name, "market_segments", Stored(p))
           /\ ret' = RetKey("evaluate_market_segments_input", f, name,
                            <<compatibility_values, answers>>, Returned(p, Zero))
    /\ UNCHANGED <<config, ships, nextId>>

\* Ship.send_to_market( True, **markets ).
MarketsOutcome(s, kw, answers) ==
    MarketsLoop(Keys(s.data.markets), s.data.markets, kw, answers)

SendToMarketInput(f, name, market_values, answers) ==
    /\ Has(ships[f], name)
    /\ LET p == MarketsOutcome(ShipOf(f, name), market_values, answers)
       IN  /\ p.answers = <<>>
           /\ heap' = SetData(f, name, "markets", Stored(p))
           /\ ret' = RetKey("send_to_market_input", f, name, <<market_values, answers>>,
                            Returned(p, Zero))
    /\ UNCHANGED <<config, ships, nextId>>

\* Ship.evaluate_market_segments( False, **compatibility_values ) as a prompt
\* loop's outcome: no prompt, the missing keys back-filled with their defaults.
SegmentsDefaulted(s, kw, answers) ==
    LET store == s.data.market_segments
        missing == {k \in KeySet(store) \cup SegmentNames : ~Has(store, k) /\ ~Has(kw, k)}
    IN  Prompted("", FALSE, store, kw \o Defaults(ListOfSet(missing, set_order)), answers)

\* ship_names == 'all', written <<"all">>: no ship of the model has that name.
AllShips == <<"all">>

NamesOf(f, ship_names) == IF ship_names = AllShips THEN Keys(ships[f]) ELSE ship_names

\* What a batch call leaves: the exception raised (if any), whether a ship
\* returned 'q', the objects and the answers not yet consumed.
Batch(exc, quit, h, answers) == [exc |-> exc, quit |-> quit, heap |-> h, answers |-> answers]

\* One ship of a batch has been evaluated with outcome p: its store is written,
\* and the batch goes on with the other names unless the ship raised or quit.
RECURSIVE FleetLoop(_, _, _, _, _, _, _)
\* A batch that does not look at what the ship returned: it always goes on.
FleetShipIgnored(f, names, h, what, input, kw, p) ==
    FleetLoop(f, Tail(names),
              [h EXCEPT ![Get(ships[f], names[1])].data[what] = Stored(p)],
              what, input, kw, p.answers)

FleetShipDone(f, names, h, what, input, kw, p) ==
    IF p.exc # "" \/ p.quit
    THEN Batch(p.exc, p.quit,
               [h EXCEPT ![Get(ships[f], names[1])].data[what] = Stored(p)], p.answers)
    ELSE FleetLoop(f, Tail(names),
                   [h EXCEPT ![Get(ships[f], names[1])].data[what] = Stored(p)],
                   what, input, kw, p.answers)

\* The loop of Fleet.evaluate (what = "criteria_values") and of
\* Fleet.evaluate_market_segments (what = "market_segments") over the names.
FleetLoop(f, names, h, what, input, kw, answers) ==
    IF names = <<>> THEN Batch("", FALSE, h, answers)
    ELSE IF ~Has(ships[f], names[1]) THEN Batch("KeyError", FALSE, h, answers)
    ELSE IF what = "criteria_values"
         THEN FleetShipDone(f, names, h, what, input, kw,
                            IF input
                            THEN EvaluateOutcome(h[Get(ships[f], names[1])], kw, answers)
                            ELSE Prompted("", FALSE,
                                          h[Get(ships[f], names[1])].data.criteria_values,
                                          kw, answers))
    ELSE FleetShipDone(f, names, h, what, input, kw,
                       IF input
                       THEN SegmentsOutcome(h[Get(ships[f], names[1])], kw, answers)
                       ELSE SegmentsDefaulted(h[Get(ships[f], names[1])], kw, answers))

\* A batch call's return: 'q' if a ship returned it, else the dict of results.
FleetReturned(b) ==
    [exc |-> b.exc, val |-> Zero, key |-> IF b.exc = "" /\ b.quit THEN ExitCode ELSE <<>>]

\* Fleet.evaluate( ship_names, request_user_input, **kwargs ).
FleetEvaluate(f, ship_names, request_user_input, kwargs, answers) ==
    LET b == FleetLoop(f, NamesOf(f, ship_names), heap, "criteria_values",
                       request_user_input, kwargs, answers)
    IN  /\ b.answers = <<>>
        /\ heap' = b.heap
        /\ ret' = RetKey("Fleet.evaluate", f, "", <<ship_names, request_user_input,
                                                   kwargs, answers>>, FleetReturned(b))
        /\ UNCHANGED <<config, ships, nextId>>

\* Fleet.evaluate_market_segments( ship_names, request_user_input, **kwargs ).
FleetEvaluateMarketSegments(f, ship_names, request_user_input, kwargs, answers) ==
    LET b == FleetLoop(f, NamesOf(f, ship_names), heap, "market_segments",
                       request_user_input, kwargs, answers)
    IN  /\ b.answers = <<>>
        /\ heap' = b.heap
        /\ ret' = RetKey("Fleet.evaluate_market_segments", f, "",
                         <<ship_names, request_user_input, kwargs, answers>>,
                         FleetReturned(b))
        /\ UNCHANGED <<config, ships, nextId>>

\* A row is added to the ship's Markets table (ship.markets.loc[m_name] = row).
AddMarket(f, name, m_name) ==
    /\ Has(ships[f], name)
    /\ m_name \notin ShipOf(f, name).markets
    /\ heap' = [heap EXCEPT ![Get(ships[f], name)].markets = @ \cup {m_name}]
    /\ ret' = Ret("add_market", f, name, <<m_name>>, Ok(Zero))
    /\ UNCHANGED <<config, ships, nextId>>

\* The estimates: they read the ship and return.
Estimate(f, name, op, args, out) ==
    /\ Has(ships[f], name)
    /\ ret' = Ret(op, f, name, args, out)
    /\ UNCHANGED <<config, ships, heap, nextId>>

EstimateQuality(f, name) ==
    /\ Has(ships[f], name)
    /\ Estimate(f, name, "estimate_quality", <<>>, Ok(estimate_quality(ShipOf(f, name))))

EstimateMarketSegmentBuyin(f, name, ms_name) ==
    /\ Has(ships[f], name)
    /\ Estimate(f, name, "estimate_market_segment_buyin", <<ms_name>>,
                estimate_market_segment_buyin(ShipOf(f, name), ms_name))

EstimateMarketBuyin(f, name, m_name) ==
    /\ Has(ships[f], name)
    /\ Estimate(f, name, "estimate_market_buyin", <<m_name>>,
                estimate_market_buyin(ShipOf(f, name), m_name))

EstimateBuyin(f, name) ==
    /\ Has(ships[f], name)
    /\ Estimate(f, name, "estimate_buyin", <<>>, estimate_buyin(ShipOf(f, name)))

EstimateBuyinLandscape(f, name) ==
    /\ Has(ships[f], name)
    /\ Estimate(f, name, "estimate_buyin_landscape", <<>>,
                estimate_buyin_landscape(ShipOf(f, name)))

EstimateBuyinChange(f, name, variable, v_name, dt) ==
    /\ Has(ships[f], name)
    /\ Estimate(f, name, "estimate_buyin_change", <<variable, v_name, dt>>,
                estimate_buyin_change(ShipOf(f, name), variable, v_name, dt))

EstimateBuyinChangeMax(f, name, dt) ==
    /\ Has(ships[f], name)
    /\ ret' = RetKey("estimate_buyin_change_max", f, name, <<dt>>,
                     estimate_buyin_change_max(ShipOf(f, name), dt))
    /\ UNCHANGED <<config, ships, heap, nextId>>

----------------------------------------------------------------------------
\* Specifications.

\* The inputs of the quality specification: the values of the tests and of the
\* documented examples, and one above every critical value.
QualityValues ==
    { <<"functionality", Rat(1, 4)>>, <<"functionality", Rat(10, 1)>>,
      <<"functionality", Rat(12, 1)>>, <<"understandability", Rat(1, 2)>>,
      <<"understandability", Rat(5, 1)>>, <<"understandability", Rat(12, 1)>> }
CriticalValues == {Rat(DefaultCriticalValue, 1), Rat(12, 1)}

InitQuality == InitWith({DefaultCriteria}, CriticalValues, SetOrders)

NextQuality ==
    \/ ConstructShip("fleet", "A", {}, "", "")
    \/ \E kw \in KwArgs(QualityValues, MaxKwargs) : Evaluate("fleet", "A", kw)
    \/ EstimateQuality("fleet", "A")

SpecQuality == InitQuality /\ [][NextQuality]_vars

----------------------------------------------------------------------------
\* Claims about the quality estimate and evaluate (under SpecQuality).

\* The product of g over the keys K of a store, taken key by key.
RECURSIVE ProdOver(_, _)
ProdOver(d, K) ==
    IF K = {} THEN One
    ELSE LET k == CHOOSE x \in K : TRUE
         IN  RMul(Get(d, k), ProdOver(d, K \ {k}))

\* The ship the last operation was called on.
RetShip == ShipOf(ret.reg, ret.ship)

\* The criteria values divided by the ship's critical_value.
ScaledByCritical(s) ==
    [i \in 1..Len(s.data.criteria_values) |->
        <<s.data.criteria_values[i][1], RDiv(s.data.criteria_values[i][2], s.critical_value)>>]

\* C8: estimate_quality() returns the product over the present criteria of
\* (criterion value / critical_value), critical_value being the registry's.
C8_QualityScalesByCriticalValue ==
    ret.op = "estimate_quality" =>
        ret.val = ProdOver(ScaledByCritical(RetShip), KeySet(RetShip.data.criteria_values))

\* C9: when every criterion value lies in [0, critical_value], estimate_quality()
\* lies in [0, 1], whatever critical_value the registry was constructed with.
C9_QualityInUnitInterval ==
    ( /\ ret.op = "estimate_quality"
      /\ \A i \in 1..Len(RetShip.data.criteria_values) :
            /\ RGe(RetShip.data.criteria_values[i][2], Zero)
            /\ RGe(RetShip.critical_value, RetShip.data.criteria_values[i][2]) )
    => RGe(ret.val, Zero) /\ RGe(One, ret.val)

\* C10: a non-interactive evaluate(**values) sets exactly the given criteria to the
\* given values, leaves every other criterion at its previous value, and returns
\* the unscaled product of all criteria values in the store after the merge.
C10_EvaluateMergesAndReturnsProduct ==
    [][ ret'.op = "evaluate" =>
          LET kw == ret'.args[1]
              old == ShipOf(ret'.reg, ret'.ship).data.criteria_values
              new == heap'[Get(ships'[ret'.reg], ret'.ship)].data.criteria_values
          IN  /\ KeySet(new) = KeySet(old) \cup KeySet(kw)
              /\ \A k \in KeySet(kw) : Get(new, k) = Get(kw, k)
              /\ \A k \in KeySet(old) \ KeySet(kw) : Get(new, k) = Get(old, k)
              /\ Len(new) = Cardinality(KeySet(new))
              /\ ret'.exc = ""
              /\ ret'.val = ProdOver(new, KeySet(new)) ]_vars

\* C10's documented example: 0.25 and 0.5 give 0.125, functionality being set by
\* the call and understandability before it.
C10_Witness ==
    /\ ret.op = "evaluate"
    /\ KeySet(ret.args[1]) = {"functionality"}
    /\ Get(RetShip.data.criteria_values, "functionality") = Rat(1, 4)
    /\ Get(RetShip.data.criteria_values, "understandability") = Rat(1, 2)
    /\ ret.val = Rat(1, 8)

----------------------------------------------------------------------------
\* The buy-in specification: one ship, evaluated, sent to markets, estimated.

BuyinCriteriaValues ==
    { <<"functionality", Rat(10, 1)>>, <<"understandability", Rat(5, 1)>>,
      <<"understandability", Zero>> }
BuyinCompatibilities == { <<"s1", Rat(1, 4)>>, <<"s2", Zero>> }
BuyinMarketValues == { <<"m1", Rat(3, 5)>>, <<"m2", One>>, <<"m2", Rat(3, 5)>> }

InitBuyin == InitWith({DefaultCriteria}, {Rat(DefaultCriticalValue, 1)}, SetOrders)

NextBuyin ==
    \/ ConstructShip("fleet", "A", {}, "", "")
    \/ \E kw \in KwArgs(BuyinCriteriaValues, MaxKwargs) :
          Evaluate("fleet", "A", kw)
    \/ \E kw \in KwArgs(BuyinCompatibilities, MaxKwargs) :
          EvaluateMarketSegments("fleet", "A", kw)
    \/ \E kw \in KwArgs(BuyinMarketValues, MaxKwargs) :
          SendToMarket("fleet", "A", kw)
    \/ \E m_name \in MarketNames : AddMarket("fleet", "A", m_name)
    \/ \E ms_name \in SegmentNames : EstimateMarketSegmentBuyin("fleet", "A", ms_name)
    \/ \E m_name \in MarketNames : EstimateMarketBuyin("fleet", "A", m_name)
    \/ EstimateBuyin("fleet", "A")

SpecBuyin == InitBuyin /\ [][NextBuyin]_vars

\* The sum of estimate_market_buyin over a set of markets.
RECURSIVE SumOfMarketBuyins(_, _)
SumOfMarketBuyins(s, M) ==
    IF M = {} THEN Zero
    ELSE LET j == CHOOSE x \in M : TRUE
         IN  RAdd(estimate_market_buyin(s, j).val, SumOfMarketBuyins(s, M \ {j}))

\* The ship the next state's operation was called on, before and after it.
RetShipBefore == ShipOf(ret'.reg, ret'.ship)
RetShipAfter == heap'[Get(ships'[ret'.reg], ret'.ship)]

\* C1: estimate_buyin() is the sum of estimate_market_buyin(j) over exactly the
\* markets j with an entry in the ship's 'markets' store (and raises when one of
\* those estimates raises); adding a market the ship was not sent to to the
\* Markets table leaves estimate_buyin() unchanged.
C1_BuyinSumsTheSentMarkets ==
    [][ /\ ret'.op = "estimate_buyin" =>
              LET sent == KeySet(RetShipAfter.data.markets)
              IN  IF \E j \in sent : estimate_market_buyin(RetShipAfter, j).exc # ""
                  THEN ret'.exc = "KeyError"
                  ELSE ret'.exc = "" /\ ret'.val = SumOfMarketBuyins(RetShipAfter, sent)
        /\ (ret'.op = "add_market" /\ ~Has(RetShipBefore.data.markets, ret'.args[1])) =>
              estimate_buyin(RetShipAfter) = estimate_buyin(RetShipBefore) ]_vars

\* C1's case: a market was added to the table, the ship was never sent to it, and
\* the buy-in of the markets it was sent to is returned.
C1_Witness ==
    /\ ret.op = "estimate_buyin"
    /\ ret.exc = ""
    /\ RGt(ret.val, Zero)
    /\ "m2" \in RetShip.markets
    /\ KeySet(RetShip.data.markets) = {"m1"}

\* C2: estimate_market_segment_buyin(segment) returns q_k * Weight_i * f_ik, with
\* f_ik the stored compatibility when the ship has an entry and the segment's
\* Default Compatibility when it has none; it does not fail for a segment of the
\* table without an entry.
C2_SegmentBuyinDefaultsWhenMissing ==
    (ret.op = "estimate_market_segment_buyin" /\ ret.args[1] \in SegmentNames) =>
        LET f_ik == IF Has(RetShip.data.market_segments, ret.args[1])
                    THEN Get(RetShip.data.market_segments, ret.args[1])
                    ELSE DefaultCompatibility(ret.args[1])
        IN  /\ ret.exc = ""
            /\ ret.val = RMul(RMul(estimate_quality(RetShip), Weight(ret.args[1])), f_ik)

\* Sum of n_ij * B_ik over a set of segments of the Markets table.
RECURSIVE SumOverSegments(_, _, _)
SumOverSegments(s, j, I) ==
    IF I = {} THEN Zero
    ELSE LET i == CHOOSE x \in I : TRUE
         IN  RAdd(RMul(MarketsTable(j, i), estimate_market_segment_buyin(s, i).val),
                  SumOverSegments(s, j, I \ {i}))

\* C19: estimate_market_buyin(j) is F_jk * sum_i n_ij * B_ik, over every segment
\* column of market j's row in the Markets table, with n_ij the cell of the row,
\* B_ik = estimate_market_segment_buyin(i) and F_jk the compatibility recorded in
\* the ship's 'markets' store; it raises only when the row, one of the B_ik or
\* F_jk is missing.
C19_MarketBuyinIsTheWeightedSum ==
    ret.op = "estimate_market_buyin" =>
        IF /\ ret.args[1] \in RetShip.markets
           /\ \A i \in SegmentNames : estimate_market_segment_buyin(RetShip, i).exc = ""
           /\ Has(RetShip.data.markets, ret.args[1])
        THEN /\ ret.exc = ""
             /\ ret.val = RMul(Get(RetShip.data.markets, ret.args[1]),
                               SumOverSegments(RetShip, ret.args[1], SegmentNames))
        ELSE ret.exc = "KeyError"

\* C19's case: a market with members of both segments, each with buy-in.
C19_Witness ==
    /\ ret.op = "estimate_market_buyin" /\ ret.exc = ""
    /\ ret.args[1] = "m1"
    /\ \A i \in SegmentNames :
          /\ estimate_market_segment_buyin(RetShip, i).exc = ""
          /\ RGt(estimate_market_segment_buyin(RetShip, i).val, Zero)
    /\ Get(RetShip.data.markets, "m1") = Rat(3, 5)
    /\ RGt(ret.val, Zero)

----------------------------------------------------------------------------
\* The sensitivity specification: one ship, variables held constant, derivatives.

SensCriteriaValues ==
    { <<"functionality", Rat(10, 1)>>, <<"understandability", Rat(5, 1)>> }
SensMarketValues == { <<"m1", Rat(3, 5)>> }

\* The ( variable, name ) pairs held constant, by full name and by shorthand.
SensHeld ==
    { <<"criteria values", "functionality">>, <<"c", "functionality">>, <<"F", "m1">> }

\* The ( variable, name ) pairs asked about.
SensVariables ==
    { <<"q", NoName>>,
      <<"criteria values", "functionality">>, <<"c", "functionality">>,
      <<"F", "m1">>, <<"market segments", "s1">> }

InitSens == InitWith({{}, DefaultCriteria}, {Rat(DefaultCriticalValue, 1)}, SetOrders)

NextSens ==
    \/ ConstructShip("fleet", "A", {}, "", "")
    \/ \E kw \in KwArgs(SensCriteriaValues, MaxKwargs) : Evaluate("fleet", "A", kw)
    \/ EvaluateMarketSegments("fleet", "A", <<>>)
    \/ \E kw \in KwArgs(SensMarketValues, MaxKwargs) : SendToMarket("fleet", "A", kw)
    \/ \E v \in SensHeld : HoldVariableConstant("fleet", "A", v[1], v[2])
    \/ \E v \in SensVariables, dt \in BOOLEAN :
          EstimateBuyinChange("fleet", "A", v[1], v[2], dt)
    \/ \E dt \in BOOLEAN : EstimateBuyinChangeMax("fleet", "A", dt)

SpecSens == InitSens /\ [][NextSens]_vars

\* C3: once hold_variable_constant(kind, name) has been called on a ship, every
\* later estimate_buyin_change(kind, name, dt) on it returns exactly 0, for dt true
\* and false, for every kind string estimate_buyin_change accepts (full names and
\* shorthands).  The held-constant list records the calls as they were made.
C3_HeldVariableHasZeroChange ==
    ( /\ ret.op = "estimate_buyin_change"
      /\ ret.args[1] \in VariableKinds
      /\ IsHeld(RetShip, ret.args[1], ret.args[2]) )
    => ret.exc = "" /\ ret.val = Zero

\* C4: once (kind, name) is in a ship's held-constant list, estimate_buyin_change_max
\* never returns (kind, name) as its key, also when every other derivative is 0 or
\* negative.
C4_MaxNeverReturnsHeldVariable ==
    (ret.op = "estimate_buyin_change_max" /\ ret.exc = "" /\ Len(ret.key) = 2)
    => ~IsHeld(RetShip, ret.key[1], ret.key[2])

\* Every criterion, market and market segment present on the ship is held constant
\* (none, when the ship has no criteria, no markets and no market segments).
EveryVariableHeld(s) ==
    \A k \in 1..Len(MODIFIABLE_VARIABLES) :
        \A v_name \in KeySet(Store(s, MODIFIABLE_VARIABLES[k])) :
            IsHeld(s, MODIFIABLE_VARIABLES[k], v_name)

\* C5: estimate_buyin_change_max returns ('not enough info', 0.0) whenever the ship
\* has no criteria, no market entries and no market-segment entries, and whenever
\* every criterion, market and market-segment variable present is held constant.
C5_SentinelWhenNothingToVary ==
    (ret.op = "estimate_buyin_change_max" /\ EveryVariableHeld(RetShip))
    => ret.exc = "" /\ ret.key = NotEnoughInfo /\ ret.val = Zero

\* C11: the key set of every ship's criteria-values store is a subset of its
\* registry's default criteria united with the criteria requested when the ship
\* was constructed, and a freshly constructed ship has exactly that key set with
\* every value 0.  (The ships of this specification stay in the registry that
\* constructed them, and none requests criteria of its own.)
C11_CriteriaKeysWithinConstruction ==
    /\ \A f \in Registries : \A i \in 1..Len(ships[f]) :
          KeySet(heap[ships[f][i][2]].data.criteria_values) \subseteq criteria[f]
    /\ (ret.op = "construct_ship" /\ ret.exc = "") =>
          /\ KeySet(RetShip.data.criteria_values) = criteria[ret.reg] \cup ret.args[1]
          /\ \A i \in 1..Len(RetShip.data.criteria_values) :
                RetShip.data.criteria_values[i][2] = Zero

----------------------------------------------------------------------------
\* The registry specification: ships are constructed in both registries, the
\* ship "A" of the docks is worked on, and ships are moved and launched.

FleetCriteriaValues == { <<"functionality", Rat(5, 1)>> }
FleetMarketValues == { <<"m1", Rat(3, 5)>> }
FleetVariables == { <<"criteria values", "functionality">> }

InitFleet == InitWith({DefaultCriteria}, {Rat(DefaultCriticalValue, 1)}, SortedOrder)

NextFleet ==
    \/ \E f \in Registries, name \in ShipNames : ConstructShip(f, name, {}, "", "")
    \/ \E f, other \in Registries, name \in ShipNames, new_name \in ShipNames \cup {NoName} :
          MoveShip(f, name, other, new_name)
    \/ \E name \in ShipNames : LaunchShip("fleet", name, "dock")
    \/ \E kw \in KwArgs(FleetCriteriaValues, MaxKwargs) : Evaluate("dock", "A", kw)
    \/ EvaluateMarketSegments("dock", "A", <<>>)
    \/ \E kw \in KwArgs(FleetMarketValues, MaxKwargs) : SendToMarket("dock", "A", kw)
    \/ \E v \in FleetVariables : HoldVariableConstant("dock", "A", v[1], v[2])

SpecFleet == InitFleet /\ [][NextFleet]_vars

\* C6: after fleet.move_ship(name, source, new_name) with source another registry,
\* source no longer holds name (a lookup or a delete raises), fleet holds the ship
\* under new_name (name when new_name is None) with the criteria values, market
\* segments, markets and held-constant list the source ship had before the move,
\* and the ship fleet holds is a new object: no object that existed before the
\* move, so that no later change of one reaches the other.
C6_MoveTransfersACopy ==
    [][ (ret'.op = "move_ship" /\ ret'.exc = "" /\ ret'.args[1] # ret'.reg) =>
          LET f == ret'.reg
              other == ret'.args[1]
              name == ret'.ship
              nn == IF ret'.args[2] = NoName THEN name ELSE ret'.args[2]
              src == heap[Get(ships[other], name)]
          IN  /\ ~Has(ships'[other], name)
              /\ Has(ships'[f], nn)
              /\ Get(ships'[f], nn) \notin DOMAIN heap
              /\ Get(ships'[f], nn) \in DOMAIN heap'
              /\ heap'[Get(ships'[f], nn)].data.criteria_values = src.data.criteria_values
              /\ heap'[Get(ships'[f], nn)].data.market_segments = src.data.market_segments
              /\ heap'[Get(ships'[f], nn)].data.markets = src.data.markets
              /\ heap'[Get(ships'[f], nn)].data.held = src.data.held
              /\ \A o \in (DOMAIN heap) \cap (DOMAIN heap') : heap'[o] = heap[o] ]_vars

\* C6's case: an evaluated ship, sent to a market, with a variable held constant,
\* was moved from the docks to the fleet under a new name.
C6_Witness ==
    /\ ret.op = "move_ship" /\ ret.exc = ""
    /\ ret.reg = "fleet" /\ ret.args = <<"dock", "B">> /\ ret.ship = "A"
    /\ ~Has(ships["dock"], "A")
    /\ Has(ships["fleet"], "B")
    /\ Get(ShipOf("fleet", "B").data.criteria_values, "functionality") = Rat(5, 1)
    /\ Len(ShipOf("fleet", "B").data.market_segments) = 2
    /\ Len(ShipOf("fleet", "B").data.markets) = 1
    /\ Len(ShipOf("fleet", "B").data.held) = 1

\* C7: construct_ship(name) for a name the registry already holds fails with an
\* error and leaves the registry unchanged: the same ship names, and the existing
\* ship's criteria values, compatibilities, held-constant list and attrs.
C7_DuplicateConstructChangesNothing ==
    [][ (ret'.op = "construct_ship" /\ Has(ships[ret'.reg], ret'.ship)) =>
          /\ ret'.exc = "AssertionError"
          /\ ships' = ships
          /\ heap' = heap ]_vars

\* C7's case: the docks hold an evaluated ship "A" with a held variable;
\* constructing "A" again failed.
C7_Witness ==
    /\ ret.op = "construct_ship" /\ ret.exc = "AssertionError"
    /\ ret.reg = "dock" /\ ret.ship = "A"
    /\ Get(ShipOf("dock", "A").data.criteria_values, "functionality") = Rat(5, 1)
    /\ Len(ShipOf("dock", "A").data.held) = 1

----------------------------------------------------------------------------
\* The interactive specification: one ship of "fleet" is evaluated, has its
\* market segments evaluated and is sent to market, at the prompt and without.

\* The sequences of at most n answers from A.
Answers(A, n) == UNION {[1..m -> A] : m \in 0..n}

\* What is typed: nothing, the exit code, the delete code, a number.
Typed == {"", "q", "d", "5"}

InputCriteriaValues == { <<"functionality", Rat(1, 2)>> }
InputCompatibilities == { <<"s1", Rat(1, 4)>> }
InputMarketValues == { <<"m1", Rat(3, 5)>> }

\* The orders of the criteria, for one order of the market segments.
CriteriaOrders == {c \o SegmentColumns : c \in Perms(DefaultCriteria)}

\* The orders of the market segments, for one order of the criteria.
SegmentOrders == {<<"functionality", "understandability">> \o g : g \in Perms(SegmentNames)}

InitInput == InitWith({DefaultCriteria}, {Rat(DefaultCriticalValue, 1)}, CriteriaOrders)

NextInput ==
    \/ ConstructShip("fleet", "A", {}, "", "")
    \/ \E kw \in KwArgs(InputCriteriaValues, MaxKwargs), answers \in Answers(Typed, MaxPrompts) :
          EvaluateInput("fleet", "A", kw, answers)
    \/ \E kw \in KwArgs(InputMarketValues, MaxKwargs) : SendToMarket("fleet", "A", kw)
    \/ \E answers \in Answers(Typed, MaxPrompts) :
          SendToMarketInput("fleet", "A", <<>>, answers)

SpecInput == InitInput /\ [][NextInput]_vars

----------------------------------------------------------------------------
\* The market-segment specification: one ship of "fleet" has its market segments
\* evaluated, at the prompt and without, and its segment buy-in estimated.

\* The criteria values the ship is evaluated with: a quality of 1/2.
SegmentsCriteriaValues ==
    << <<"functionality", Rat(10, 1)>>, <<"understandability", Rat(5, 1)>> >>

InitSegments == InitWith({DefaultCriteria}, {Rat(DefaultCriticalValue, 1)}, SegmentOrders)

NextSegments ==
    \/ ConstructShip("fleet", "A", {}, "", "")
    \/ Evaluate("fleet", "A", SegmentsCriteriaValues)
    \/ \E kw \in KwArgs(InputCompatibilities, MaxKwargs) :
          EvaluateMarketSegments("fleet", "A", kw)
    \/ \E answers \in Answers(Typed, MaxPrompts) :
          EvaluateMarketSegmentsInput("fleet", "A", <<>>, answers)
    \/ \E ms_name \in SegmentNames : EstimateMarketSegmentBuyin("fleet", "A", ms_name)

SpecSegments == InitSegments /\ [][NextSegments]_vars

\* C12: after a non-interactive evaluate_market_segments(**values) the store has
\* an entry for every segment of the reference table: a segment named in the call
\* holds the given value, one already in the store and not named keeps its value,
\* and one in neither holds its Default Compatibility, so that its buy-in is
\* quality * Weight * Default Compatibility.
C12_SegmentsBackFilledWithDefaults ==
    [][ (ret'.op = "evaluate_market_segments" /\ ret'.exc = "") =>
          \A k \in SegmentNames :
              /\ Has(RetShipAfter.data.market_segments, k)
              /\ Has(ret'.args[1], k) =>
                    Get(RetShipAfter.data.market_segments, k) = Get(ret'.args[1], k)
              /\ (~Has(ret'.args[1], k) /\ Has(RetShipBefore.data.market_segments, k)) =>
                    Get(RetShipAfter.data.market_segments, k)
                        = Get(RetShipBefore.data.market_segments, k)
              /\ (~Has(ret'.args[1], k) /\ ~Has(RetShipBefore.data.market_segments, k)) =>
                    /\ Get(RetShipAfter.data.market_segments, k) = DefaultCompatibility(k)
                    /\ estimate_market_segment_buyin(RetShipAfter, k)
                         = Ok(RMul(RMul(estimate_quality(RetShipAfter), Weight(k)),
                                   DefaultCompatibility(k))) ]_vars

\* C12's case: an evaluated ship whose entry for "s1" was deleted at the prompt
\* after "s2" was given a value there; evaluate_market_segments() has put "s1"
\* back, behind "s2", with its default.
C12_Witness ==
    /\ ret.op = "evaluate_market_segments" /\ ret.exc = "" /\ ret.args[1] = <<>>
    /\ set_order = <<"functionality", "understandability", "s1", "s2">>
    /\ RetShip.data.market_segments
         = << <<"s2", Rat(5, 1)>>, <<"s1", DefaultCompatibility("s1")>> >>
    /\ estimate_quality(RetShip) = Rat(1, 2)

\* The pairs a held-constant list holds.
HeldSet(s) == {s.data.held[i] : i \in 1..Len(s.data.held)}

\* C13: after fleet.launch_ship(name, dock) the ship is in fleet and not in dock,
\* [kind, key] is in its held-constant list for every key of its 'criteria
\* values' store and every key of its 'market segments' store, and the launch
\* has appended no 'markets' entry to the list the ship had in the docks.
C13_LaunchHoldsCriteriaAndSegments ==
    [][ (ret'.op = "launch_ship" /\ ret'.exc = "") =>
          LET before == heap[Get(ships[ret'.args[1]], ret'.ship)].data.held
              after == RetShipAfter.data.held
          IN  /\ Has(ships'[ret'.reg], ret'.ship)
              /\ ~Has(ships'[ret'.args[1]], ret'.ship)
              /\ \A k \in KeySet(RetShipAfter.data.criteria_values) :
                    <<"criteria values", k>> \in HeldSet(RetShipAfter)
              /\ \A k \in KeySet(RetShipAfter.data.market_segments) :
                    <<"market segments", k>> \in HeldSet(RetShipAfter)
              /\ Len(after) >= Len(before)
              /\ SubSeq(after, 1, Len(before)) = before
              /\ \A i \in (Len(before) + 1)..Len(after) :
                    FullName(after[i][1]) # "markets" ]_vars

\* C13's case: a ship with two criteria, two market segments and a market, none
\* held in the docks, has been launched.
C13_Witness ==
    /\ ret.op = "launch_ship" /\ ret.exc = "" /\ ret.reg = "fleet"
    /\ Len(RetShip.data.criteria_values) = 2
    /\ Len(RetShip.data.market_segments) = 2
    /\ Len(RetShip.data.markets) = 1
    /\ Len(RetShip.data.held) = 4

----------------------------------------------------------------------------
\* The batch specification: the ships of "fleet" are evaluated, and have their
\* market segments evaluated, by the registry's batch methods.

\* What is typed during a batch: the exit code or a number.
BatchTyped == {"q", "5"}
BatchCriteriaValues == { <<"understandability", Rat(1, 2)>> }
BatchNames == {AllShips, <<"B", "A">>}

InitBatch == InitWith({DefaultCriteria}, {Rat(DefaultCriticalValue, 1)}, SortedOrder)

NextBatch ==
    \/ \E name \in ShipNames : ConstructShip("fleet", name, {}, "", "")
    \/ \E ship_names \in BatchNames, kw \in KwArgs(BatchCriteriaValues, MaxKwargs) :
          FleetEvaluate("fleet", ship_names, FALSE, kw, <<>>)
    \/ \E ship_names \in BatchNames, kw \in KwArgs(BatchCriteriaValues, MaxKwargs),
          answers \in Answers(BatchTyped, MaxAnswers) :
          FleetEvaluate("fleet", ship_names, TRUE, kw, answers)
    \/ \E ship_names \in BatchNames, answers \in Answers(BatchTyped, MaxAnswers) :
          FleetEvaluateMarketSegments("fleet", ship_names, TRUE, <<>>, answers)

SpecBatch == InitBatch /\ [][NextBatch]_vars

\* The batch call of the next state: its names in order, the ship under a name
\* before and after the call, and the store the call writes.
CallNames == NamesOf(ret'.reg, ret'.args[1])
CallShipBefore(name) == heap[Get(ships[ret'.reg], name)]
CallShipAfter(name) == heap'[Get(ships'[ret'.reg], name)]
CallStore(s) ==
    IF ret'.op = "Fleet.evaluate" THEN s.data.criteria_values ELSE s.data.market_segments

\* The keys the call prompts for on a ship, in the order of the prompts.
PromptedKeys(s) ==
    LET asked(k) == ~Has(ret'.args[3], k)
    IN  IF ret'.op = "Fleet.evaluate" THEN SelectSeq(Keys(s.data.criteria_values), asked)
        ELSE SelectSeq(ListOfSet(KeySet(s.data.market_segments) \cup SegmentNames, set_order),
                       asked)

\* The number of prompts of the ships before the i-th name.
RECURSIVE PromptsBefore(_)
PromptsBefore(i) ==
    IF i = 1 THEN 0
    ELSE PromptsBefore(i - 1) + Len(PromptedKeys(CallShipBefore(CallNames[i - 1])))

\* The position, among the names, of the ship at whose prompt the last answer
\* was typed.
LastPrompted ==
    CHOOSE j \in 1..Len(CallNames) :
        /\ PromptsBefore(j) < Len(ret'.args[4])
        /\ Len(ret'.args[4]) <= PromptsBefore(j) + Len(PromptedKeys(CallShipBefore(CallNames[j])))

\* C14: an interactive Fleet.evaluate or Fleet.evaluate_market_segments processes
\* the named ships in order ('all': registry insertion order).  It returns 'q'
\* exactly when 'q' is typed; 'q' is then the last answer asked for, the ship at
\* whose prompt it was typed and every later ship (a later name need not be a
\* ship: it is never looked up) are unchanged, and every earlier ship holds the values typed at its prompts and the keyword values.
C14_BatchStopsAtFirstExitCode ==
    [][ ( /\ ret'.op \in {"Fleet.evaluate", "Fleet.evaluate_market_segments"}
          /\ ret'.args[2] /\ ret'.exc = "" ) =>
          /\ (ret'.key = ExitCode) <=> (\E n \in 1..Len(ret'.args[4]) : ret'.args[4][n] = "q")
          /\ (ret'.key = ExitCode) =>
                /\ ret'.args[4][Len(ret'.args[4])] = "q"
                /\ \A n \in 1..(Len(ret'.args[4]) - 1) : ret'.args[4][n] # "q"
                /\ ships' = ships
                /\ \A i \in 1..Len(CallNames) :
                      IF i >= LastPrompted
                      THEN Has(ships[ret'.reg], CallNames[i]) =>
                              CallShipAfter(CallNames[i]) = CallShipBefore(CallNames[i])
                      ELSE /\ \A p \in 1..Len(PromptedKeys(CallShipBefore(CallNames[i]))) :
                                 Get(CallStore(CallShipAfter(CallNames[i])),
                                     PromptedKeys(CallShipBefore(CallNames[i]))[p])
                                   = Float(ret'.args[4][PromptsBefore(i) + p]).val
                           /\ \A k \in KeySet(ret'.args[3]) :
                                 Get(CallStore(CallShipAfter(CallNames[i])), k)
                                   = Get(ret'.args[3], k) ]_vars

\* C14's case: fleet.evaluate('all', True) on the ships "A" and "B", constructed
\* in that order; two values were typed for "A" and 'q' at the first prompt of "B".
C14_Witness ==
    /\ ret.op = "Fleet.evaluate" /\ ret.key = ExitCode
    /\ ret.args = <<AllShips, TRUE, <<>>, <<"5", "5", "q">> >>
    /\ Keys(ships["fleet"]) = <<"A", "B">>
    /\ \A i \in 1..2 : ShipOf("fleet", "A").data.criteria_values[i][2] = Rat(5, 1)
    /\ \A i \in 1..2 : ShipOf("fleet", "B").data.criteria_values[i][2] = Zero

----------------------------------------------------------------------------
\* Claims about a ship's interactive methods.

\* The store an interactive method of a ship prompts for.
AskedStore(s) ==
    IF ret'.op = "evaluate_input" THEN s.data.criteria_values
    ELSE IF ret'.op = "send_to_market_input" THEN s.data.markets
    ELSE s.data.market_segments

\* The keys the call of the next state prompts for, in the order of the prompts.
AskedKeys ==
    LET asked(k) == ~Has(ret'.args[1], k)
    IN  IF ret'.op = "evaluate_market_segments_input"
        THEN SelectSeq(ListOfSet(KeySet(RetShipBefore.data.market_segments) \cup SegmentNames,
                                 set_order), asked)
        ELSE SelectSeq(Keys(AskedStore(RetShipBefore)), asked)

\* C15: in each interactive path (evaluate, evaluate_market_segments,
\* send_to_market), answering prompts with 'd' (and the others with nothing)
\* raises no error, every key is prompted for, and the keys answered with 'd',
\* and only they, are removed from the store.
C15_DeleteRemovesThePromptedKey ==
    [][ ( /\ ret'.op \in {"evaluate_input", "evaluate_market_segments_input",
                          "send_to_market_input"}
          /\ \E n \in 1..Len(ret'.args[2]) : ret'.args[2][n] = "d"
          /\ \A n \in 1..Len(ret'.args[2]) : ret'.args[2][n] \in {"", "d"}
          /\ ret'.exc # "EOFError" ) =>
          /\ ret'.exc = ""
          /\ Len(ret'.args[2]) = Len(AskedKeys)
          /\ \A n \in 1..Len(AskedKeys) :
                Has(AskedStore(RetShipAfter), AskedKeys[n])
                    <=> (ret'.args[2][n] # "d" /\ ( \/ Has(AskedStore(RetShipBefore), AskedKeys[n])
                                                   \/ ret'.op = "evaluate_market_segments_input" ))
          /\ \A k \in KeySet(AskedStore(RetShipBefore)) \ {AskedKeys[n] : n \in 1..Len(AskedKeys)} :
                Has(AskedStore(RetShipAfter), k) ]_vars

\* The keys answered with 'd' in the call of the next state.
DeletedKeys ==
    {AskedKeys[n] : n \in {i \in 1..Len(ret'.args[2]) : ret'.args[2][i] = "d"}}

\* C16: when 'q' is typed at a prompt of Ship.evaluate(request_user_input=True)
\* the call returns 'q' and writes no criterion value: neither the values typed at
\* its earlier prompts nor its keyword arguments.  The store keeps the values it
\* had, in their order, without the keys deleted with 'd' earlier in the call.
C16_ExitCodeStoresNothing ==
    [][ ( /\ ret'.op = "evaluate_input" /\ ret'.exc = ""
          /\ \E n \in 1..Len(ret'.args[2]) : ret'.args[2][n] = "q" ) =>
          LET kept(entry) == entry[1] \notin DeletedKeys
          IN  /\ ret'.key = ExitCode
              /\ RetShipAfter.data.criteria_values
                   = SelectSeq(RetShipBefore.data.criteria_values, kept) ]_vars

\* C16's case: evaluate(True, functionality=0.5) on a ship whose criteria are 5
\* and 0; 'q' was typed at the prompt for the second, and both are unchanged.
C16_Witness ==
    /\ ret.op = "evaluate_input" /\ ret.key = ExitCode
    /\ ret.args = << << <<"functionality", Rat(1, 2)>> >>, <<"q">> >>
    /\ KeySet(RetShip.data.criteria_values) = DefaultCriteria
    /\ Get(RetShip.data.criteria_values, "functionality") = Rat(5, 1)
    /\ Get(RetShip.data.criteria_values, "understandability") = Zero

\* C16's other case: a value was typed at the first prompt and 'q' at the second;
\* both criteria are still 0.
C16_WitnessTyped ==
    /\ ret.op = "evaluate_input" /\ ret.key = ExitCode
    /\ ret.args = << <<>>, <<"5", "q">> >>
    /\ \A i \in 1..2 : RetShip.data.criteria_values[i][2] = Zero

----------------------------------------------------------------------------
\* The held-constant specification: the ship "A" of the docks has variables held
\* constant, is evaluated (criteria are deleted at the prompt), has its market
\* segments evaluated and is sent to market, and is moved or launched to "fleet".

HeldVariables == { <<"criteria values", "functionality">> }
HeldTyped == {"", "d"}
HeldMarketValues == << <<"m1", Rat(3, 5)>> >>

InitHeld == InitWith({DefaultCriteria}, {Rat(DefaultCriticalValue, 1)}, SortedOrder)

NextHeld ==
    \/ ConstructShip("dock", "A", {}, "", "")
    \/ \E v \in HeldVariables : HoldVariableConstant("dock", "A", v[1], v[2])
    \/ \E answers \in Answers(HeldTyped, MaxPrompts) : EvaluateInput("dock", "A", <<>>, answers)
    \/ EvaluateMarketSegments("dock", "A", <<>>)
    \/ SendToMarket("dock", "A", HeldMarketValues)
    \/ \E new_name \in {NoName, "B"} : MoveShip("fleet", "A", "dock", new_name)
    \/ LaunchShip("fleet", "A", "dock")

SpecHeld == InitHeld /\ [][NextHeld]_vars

\* a is a prefix of b.
IsPrefix(a, b) == Len(a) <= Len(b) /\ SubSeq(b, 1, Len(a)) = a

\* C17: a ship's held-constant list is append-only: over every operation the list
\* a Ship object had is a prefix of the list it has, and the list of the ship a
\* move or launch brings into a registry has the list of the ship it took from
\* the other registry as a prefix.  Deleting a key from a store removes nothing.
C17_HeldListIsAppendOnly ==
    [][ /\ \A o \in DOMAIN heap \cap DOMAIN heap' :
              IsPrefix(heap[o].data.held, heap'[o].data.held)
        /\ (ret'.op \in {"move_ship", "launch_ship"} /\ ret'.exc = "") =>
              IsPrefix(heap[Get(ships[ret'.args[1]], ret'.ship)].data.held,
                       heap'[Get(ships'[ret'.reg],
                                 IF ret'.op = "move_ship" /\ ret'.args[2] # NoName
                                 THEN ret'.args[2] ELSE ret'.ship)].data.held) ]_vars

\* C17's case: 'functionality' was held constant and then deleted at the prompt
\* in the docks; the ship has been launched, and its list starts with that entry.
C17_Witness ==
    /\ ret.op = "launch_ship" /\ ret.exc = ""
    /\ ~Has(RetShip.data.criteria_values, "functionality")
    /\ Len(RetShip.data.held) = 4
    /\ RetShip.data.held[1] = <<"criteria values", "functionality">>
    /\ Len(RetShip.data.markets) = 1

----------------------------------------------------------------------------
\* The maximum specification: one ship of "fleet", with any of its stores filled
\* and a criterion held constant, is asked for its largest derivative.

MaxCriteriaValues ==
    { <<"functionality", Rat(10, 1)>>, <<"functionality", Rat(12, 1)>>,
      <<"understandability", Rat(5, 1)>> }
MaxCompatibilities == { <<"s1", Rat(1, 4)>> }
MaxMarketValues == { <<"m1", Rat(3, 5)>>, <<"m2", Rat(1, 1)>> }

InitMax == InitWith({{}, DefaultCriteria}, {Rat(DefaultCriticalValue, 1)}, CriteriaOrders)

NextMax ==
    \/ ConstructShip("fleet", "A", {}, "", "")
    \/ \E kw \in KwArgs(MaxCriteriaValues, MaxKwargs) : Evaluate("fleet", "A", kw)
    \/ \E kw \in KwArgs(MaxCompatibilities, MaxKwargs) :
          EvaluateMarketSegments("fleet", "A", kw)
    \/ AddMarket("fleet", "A", "m2")
    \/ \E kw \in KwArgs(MaxMarketValues, MaxKwargs) : SendToMarket("fleet", "A", kw)
    \/ HoldVariableConstant("fleet", "A", "criteria values", "functionality")
    \/ \E dt \in BOOLEAN : EstimateBuyinChangeMax("fleet", "A", dt)

SpecMax == InitMax /\ [][NextMax]_vars

\* C18: on a ship with no market entries, no market-segment entries and nothing
\* held constant, estimate_buyin_change_max returns a key of kind 'criteria
\* values', with that criterion's derivative as value, when the ship has a
\* criterion, and the 'not enough info' sentinel when it has none.
C18_MaxOfACriteriaOnlyShip ==
    ( /\ ret.op = "estimate_buyin_change_max"
      /\ RetShip.data.markets = <<>>
      /\ RetShip.data.market_segments = <<>>
      /\ RetShip.data.held = <<>> ) =>
        /\ ret.exc = ""
        /\ IF RetShip.data.criteria_values = <<>>
           THEN ret.key = NotEnoughInfo /\ ret.val = Zero
           ELSE /\ Len(ret.key) = 2
                /\ ret.key[1] = "criteria values"
                /\ Has(RetShip.data.criteria_values, ret.key[2])
                /\ ret.val = estimate_buyin_change(RetShip, "criteria values", ret.key[2],
                                                   ret.args[1]).val

\* C18's case: a ship evaluated and nothing else, asked for its maximum.
C18_Witness ==
    /\ ret.op = "estimate_buyin_change_max" /\ ret.exc = ""
    /\ RetShip.data.markets = <<>> /\ RetShip.data.market_segments = <<>>
    /\ RetShip.data.held = <<>>
    /\ Len(RetShip.data.criteria_values) = 2
    /\ Get(RetShip.data.criteria_values, "functionality") = Rat(10, 1)
    /\ ret.key[1] = "criteria values"

\* C18's other case: a ship without criteria, asked for its maximum.
C18_WitnessEmpty ==
    /\ ret.op = "estimate_buyin_change_max" /\ ret.key = NotEnoughInfo
    /\ RetShip.data.criteria_values = <<>>

\* The variables present in a ship's stores.
PresentVariables(s) ==
    { v \in {"criteria values", "markets", "market segments"} \X
            (DefaultCriteria \cup MarketNames \cup SegmentNames) :
        Has(Store(s, v[1]), v[2]) }

\* C20: estimate_buyin_change_max returns a (kind, name) present in the ship's
\* stores, never 'quality'; the value returned is estimate_buyin_change(kind,
\* name, dt) and is greater than or equal to the derivative of every variable
\* present in the stores.  The sentinel is returned only for empty stores.
C20_MaxIsTheLargestDerivative ==
    (ret.op = "estimate_buyin_change_max" /\ ret.exc = "") =>
        IF PresentVariables(RetShip) = {}
        THEN ret.key = NotEnoughInfo
        ELSE /\ ret.key \in PresentVariables(RetShip)
             /\ ret.val = estimate_buyin_change(RetShip, ret.key[1], ret.key[2],
                                                ret.args[1]).val
             /\ \A v \in PresentVariables(RetShip) :
                   RGe(ret.val, estimate_buyin_change(RetShip, v[1], v[2], ret.args[1]).val)

\* C20's case: variables of all three kinds are present, the largest derivative
\* is positive and is not that of the first variable of the first kind.
C20_Witness ==
    /\ ret.op = "estimate_buyin_change_max" /\ ret.exc = ""
    /\ RetShip.data.criteria_values # <<>>
    /\ RetShip.data.markets # <<>>
    /\ RetShip.data.market_segments # <<>>
    /\ RGt(ret.val, Zero)
    /\ ret.key # <<"criteria values", RetShip.data.criteria_values[1][1]>>
    /\ \E v \in PresentVariables(RetShip) :
          RGt(ret.val, estimate_buyin_change(RetShip, v[1], v[2], ret.args[1]).val)

----------------------------------------------------------------------------
\* Claims about the derivatives of the buy-in.

\* The current normalized value of a variable: q_k, c_m / 10, F_jk or f_ik.
NormalizedValue(s, variable, name) ==
    IF variable = "quality" THEN estimate_quality(s)
    ELSE IF variable = "criteria values"
    THEN RDiv(Get(s.data.criteria_values, name), Rat(ScaleDivisor, 1))
    ELSE Get(Store(s, variable), name)

\* Quality, a criterion of the ship, a market of the Markets table or a segment
\* of the Market Segments table.
IsReferenceVariable(s, variable, name) ==
    \/ variable = "quality"
    \/ variable = "criteria values" /\ Has(s.data.criteria_values, name)
    \/ variable = "markets" /\ name \in s.markets
    \/ variable = "market segments" /\ name \in SegmentNames

\* C21: for quality, every criterion of the ship, every market of the Markets
\* table and every segment of the Market Segments table, whenever
\* estimate_buyin_change(kind, name, dt=False) returns, estimate_buyin_change(kind,
\* name, dt=True) returns that value multiplied by 1 - X, X being the current
\* normalized value of the variable.
C21_DiminishingReturnsScalesByOneMinusX ==
    ( /\ ret.op = "estimate_buyin_change"
      /\ ret.args[3]
      /\ IsReferenceVariable(RetShip, FullName(ret.args[1]), ret.args[2])
      /\ estimate_buyin_change(RetShip, ret.args[1], ret.args[2], FALSE).exc = "" ) =>
        /\ ret.exc = ""
        /\ ret.val = RMul(estimate_buyin_change(RetShip, ret.args[1], ret.args[2], FALSE).val,
                          RSub(One, NormalizedValue(RetShip, FullName(ret.args[1]),
                                                    ret.args[2])))

----------------------------------------------------------------------------
\* The derivative specification: one ship of "fleet", evaluated, sent to markets
\* of the Markets table and to one that may not be in it, asked for derivatives.

ChangeCriteriaValues ==
    { <<"functionality", Rat(10, 1)>>, <<"functionality", Zero>>,
      <<"understandability", Rat(5, 1)>> }
ChangeCompatibilities == { <<"s1", Rat(1, 4)>> }
ChangeMarketValues == { <<"m1", Rat(3, 5)>>, <<"m2", Rat(1, 2)>> }
ChangeHeld == { <<"markets", "m1">> }
ChangeVariables ==
    { <<"q", NoName>>,
      <<"criteria values", "functionality">>, <<"c", "understandability">>,
      <<"markets", "m1">>, <<"F", "m2">>,
      <<"market segments", "s1">>, <<"f", "s2">> }

InitChange == InitWith({DefaultCriteria}, {Rat(DefaultCriticalValue, 1)}, SortedOrder)

NextChange ==
    \/ ConstructShip("fleet", "A", {}, "", "")
    \/ \E kw \in KwArgs(ChangeCriteriaValues, MaxKwargs) : Evaluate("fleet", "A", kw)
    \/ \E kw \in KwArgs(ChangeCompatibilities, MaxKwargs) :
          EvaluateMarketSegments("fleet", "A", kw)
    \/ AddMarket("fleet", "A", "m2")
    \/ \E kw \in KwArgs(ChangeMarketValues, MaxKwargs) : SendToMarket("fleet", "A", kw)
    \/ \E v \in ChangeHeld : HoldVariableConstant("fleet", "A", v[1], v[2])
    \/ \E v \in ChangeVariables, dt \in BOOLEAN :
          EstimateBuyinChange("fleet", "A", v[1], v[2], dt)

SpecChange == InitChange /\ [][NextChange]_vars

\* The call is estimate_buyin_change(kind, name, dt=False), kind given by its
\* full name or a shorthand, on a variable that is not held constant.
AskedChange(kind) ==
    /\ ret.op = "estimate_buyin_change"
    /\ FullName(ret.args[1]) = kind
    /\ ~ret.args[3]
    /\ ~IsHeld(RetShip, kind, ret.args[2])

\* C22: for a market j of the Markets table that is not held constant,
\* estimate_buyin_change('markets', j) is sum_i n_ij * B_ik, without a factor
\* F_jk: whether the ship has a compatibility entry for j, and its value, do not
\* enter the result.  The call raises only when one of the B_ik does.
C22_MarketChangeHasNoCompatibilityFactor ==
    (AskedChange("markets") /\ ret.args[2] \in RetShip.markets) =>
        IF \A i \in SegmentNames : estimate_market_segment_buyin(RetShip, i).exc = ""
        THEN /\ ret.exc = ""
             /\ ret.val = SumOverSegments(RetShip, ret.args[2], SegmentNames)
        ELSE ret.exc = "KeyError"

\* C22's case: the derivative for a market of the table the ship was not sent to
\* (it was sent to another), with buy-in from the segments.
C22_Witness ==
    /\ AskedChange("markets")
    /\ ret.args[2] = "m2" /\ "m2" \in RetShip.markets
    /\ KeySet(RetShip.data.markets) = {"m1"}
    /\ ret.exc = "" /\ RGt(ret.val, Zero)

\* C22's other case: the derivative for a market the ship was sent to.
C22_WitnessSent ==
    /\ AskedChange("markets")
    /\ ret.args[2] = "m1" /\ Has(RetShip.data.markets, "m1")
    /\ ret.exc = "" /\ RGt(ret.val, Zero)

\* Sum of F_jk * n_ij over a set of markets the ship has a compatibility for.
RECURSIVE SumOverMarkets(_, _, _)
SumOverMarkets(s, J, i) ==
    IF J = {} THEN Zero
    ELSE LET j == CHOOSE x \in J : TRUE
         IN  RAdd(RMul(Get(s.data.markets, j), MarketsTable(j, i)),
                  SumOverMarkets(s, J \ {j}, i))

\* C23: for a segment i of the Market Segments table that is not held constant,
\* estimate_buyin_change('market segments', i) is q_k * b_i * sum_j F_jk * n_ij,
\* over the markets j the ship has a compatibility for: the segment's own
\* compatibility f_ik does not enter, and the value is returned also when the
\* ship has no entry for segment i.  The call raises only when a market the ship
\* was sent to has no row in the Markets table (there is no n_ij then).
C23_SegmentChangeIgnoresOwnCompatibility ==
    (AskedChange("market segments") /\ ret.args[2] \in SegmentNames) =>
        IF KeySet(RetShip.data.markets) \subseteq RetShip.markets
        THEN /\ ret.exc = ""
             /\ ret.val = RMul(RMul(estimate_quality(RetShip), Weight(ret.args[2])),
                               SumOverMarkets(RetShip, KeySet(RetShip.data.markets),
                                              ret.args[2]))
        ELSE ret.exc = "KeyError"

\* C23's case: the derivative for a segment the ship has no entry for, with two
\* markets recorded.
C23_Witness ==
    /\ AskedChange("market segments")
    /\ ~Has(RetShip.data.market_segments, ret.args[2])
    /\ KeySet(RetShip.data.markets) = {"m1", "m2"}
    /\ ret.exc = "" /\ RGt(ret.val, Zero)

\* C23's other case: the derivative for a segment with an entry other than 1.
C23_WitnessEntry ==
    /\ AskedChange("market segments")
    /\ ret.args[2] = "s1"
    /\ Has(RetShip.data.market_segments, "s1")
    /\ Get(RetShip.data.market_segments, "s1") = Rat(1, 4)
    /\ ret.exc = "" /\ RGt(ret.val, Zero)

\* C24: for a criterion m of the ship that is not held constant,
\* estimate_buyin_change('criteria values', m) with dt false returns B_k / c_m,
\* B_k being estimate_buyin() and c_m the stored value divided by 10, and returns
\* 0 when B_k and c_m are both within numpy.isclose of 0.  It raises only when
\* estimate_buyin() does.
C24_CriterionChangeIsBuyinOverValue ==
    (AskedChange("criteria values") /\ Has(RetShip.data.criteria_values, ret.args[2])) =>
        IF estimate_buyin(RetShip).exc # ""
        THEN ret.exc = estimate_buyin(RetShip).exc
        ELSE /\ ret.exc = ""
             /\ ret.val =
                  IF /\ IsCloseToZero(estimate_buyin(RetShip).val)
                     /\ IsCloseToZero(NormalizedValue(RetShip, "criteria values", ret.args[2]))
                  THEN Zero
                  ELSE RDiv(estimate_buyin(RetShip).val,
                            NormalizedValue(RetShip, "criteria values", ret.args[2]))

\* C24's case: a ship with buy-in, asked about a criterion whose value is not 10.
C24_Witness ==
    /\ AskedChange("criteria values")
    /\ ret.args[2] = "understandability"
    /\ Has(RetShip.data.criteria_values, "understandability")
    /\ Get(RetShip.data.criteria_values, "understandability") = Rat(5, 1)
    /\ ret.exc = "" /\ RGt(estimate_buyin(RetShip).val, Zero)
    /\ ret.val = RMul(Rat(2, 1), estimate_buyin(RetShip).val)

\* C24's other case: buy-in 0 and a criterion at 0, on a ship sent to a market.
C24_WitnessZero ==
    /\ AskedChange("criteria values")
    /\ Has(RetShip.data.criteria_values, ret.args[2])
    /\ Get(RetShip.data.criteria_values, ret.args[2]) = Zero
    /\ RetShip.data.markets # <<>>
    /\ ret.exc = "" /\ ret.val = Zero

\* C25: on a ship whose quality is 0 (its buy-in is 0 as well),
\* estimate_buyin_change('quality'), quality not being held constant, returns 0,
\* not an undefined value and not an error.
C25_QualityChangeIsZeroAtZeroQuality ==
    ( /\ ret.op = "estimate_buyin_change"
      /\ FullName(ret.args[1]) = "quality"
      /\ ~IsHeld(RetShip, "quality", ret.args[2])
      /\ estimate_quality(RetShip) = Zero
      /\ estimate_buyin(RetShip).exc = "" ) =>
        ret.exc = "" /\ ret.val = Zero

----------------------------------------------------------------------------
\* The landscape specification: one ship of "fleet", in any state of evaluation,
\* asked for its buy-in landscape.

InitLandscape == InitWith({DefaultCriteria}, {Rat(DefaultCriticalValue, 1)}, SortedOrder)

NextLandscape ==
    \/ ConstructShip("fleet", "A", {}, "", "")
    \/ \E kw \in KwArgs(ChangeCriteriaValues, MaxKwargs) : Evaluate("fleet", "A", kw)
    \/ \E kw \in KwArgs(ChangeCompatibilities, MaxKwargs) :
          EvaluateMarketSegments("fleet", "A", kw)
    \/ AddMarket("fleet", "A", "m2")
    \/ \E kw \in KwArgs(ChangeMarketValues, MaxKwargs) : SendToMarket("fleet", "A", kw)
    \/ EstimateBuyinLandscape("fleet", "A")

SpecLandscape == InitLandscape /\ [][NextLandscape]_vars

\* C26: in any state of the ship, estimate_buyin_landscape() returns the quality,
\* the total buy-in, the map of the criteria values, a map of market buy-ins with
\* an entry for every market of the Markets table and a map of segment buy-ins
\* with an entry for every segment of the Market Segments table.
C26_LandscapeCoversTheReferenceTables ==
    ret.op = "estimate_buyin_landscape" =>
        /\ ret.exc = ""
        /\ ret.val.quality = estimate_quality(RetShip)
        /\ ret.val.buyin = estimate_buyin(RetShip).val
        /\ ret.val.criteria_values = RetShip.data.criteria_values
        /\ KeySet(ret.val.markets) = RetShip.markets
        /\ KeySet(ret.val.market_segments) = SegmentNames

----------------------------------------------------------------------------
\* Claims about the registries.

\* The number of ships in the registries a move involves.
ShipCount(sh, f, other) ==
    IF f = other THEN Len(sh[f]) ELSE Len(sh[f]) + Len(sh[other])

\* The name a move stores the ship under.
MovedName(name, new_name) == IF new_name = NoName THEN name ELSE new_name

\* C27: every call move_ship(name, other_fleet, new_name) on a ship other_fleet
\* holds, whether it returns or raises, leaves as many ships in the registries
\* involved as there were, and leaves the moved ship in the registry under its
\* (new) name; other_fleet may be the fleet itself and new_name may name a ship
\* of the destination.
C27_MoveNeverDestroysAShip ==
    [][ (ret'.op = "move_ship" /\ Has(ships[ret'.args[1]], ret'.ship)) =>
            /\ ShipCount(ships', ret'.reg, ret'.args[1])
                  = ShipCount(ships, ret'.reg, ret'.args[1])
            /\ Has(ships'[ret'.reg], MovedName(ret'.ship, ret'.args[2])) ]_vars

\* C28: every ship a registry holds under key k has k as its name attribute and
\* as the name persisted in data['attrs']['name'], after any sequence of
\* construct_ship, move_ship and launch_ship.
C28_ShipNameIsItsKey ==
    \A f \in Registries : \A i \in 1..Len(ships[f]) :
        /\ heap[ships[f][i][2]].name = ships[f][i][1]
        /\ heap[ships[f][i][2]].data.attrs.name = ships[f][i][1]

----------------------------------------------------------------------------
\* C29: estimate_buyin_change('criteria values', m) never divides a buy-in other
\* than 0 by a criterion value of 0.  In every state reached through evaluate,
\* evaluate_market_segments and send_to_market, whenever criterion m's stored
\* value is 0 the quality is 0 and the total buy-in is 0, and a call that returns
\* returns 0, with dt true or false; and whatever the value of m, a call that
\* returns returns a finite number.
C29_CriterionChangeNeverDividesByZero ==
    ( /\ ret.op = "estimate_buyin_change"
      /\ FullName(ret.args[1]) = "criteria values"
      /\ Has(RetShip.data.criteria_values, ret.args[2]) ) =>
        /\ ret.exc = "" => IsFinite(ret.val)
        /\ Get(RetShip.data.criteria_values, ret.args[2]) = Zero =>
              /\ estimate_quality(RetShip) = Zero
              /\ estimate_buyin(RetShip).exc = "" => estimate_buyin(RetShip).val = Zero
              /\ ret.exc = "" => ret.val = Zero

\* C29's case: a criterion at 0 while the other is not, on a ship evaluated for
\* its segments and sent to a market, asked with dt true.
C29_Witness ==
    /\ ret.op = "estimate_buyin_change"
    /\ ret.args = <<"c", "understandability", TRUE>>
    /\ Has(RetShip.data.criteria_values, "understandability")
    /\ Get(RetShip.data.criteria_values, "understandability") = Zero
    /\ Get(RetShip.data.criteria_values, "functionality") = Rat(10, 1)
    /\ RetShip.data.market_segments # <<>>
    /\ Has(RetShip.data.markets, "m1")
    /\ ret.exc = "" /\ ret.val = Zero

----------------------------------------------------------------------------
\* shipbuilding.Schedule: the schedule of one activity.  Times are in hours.

BEDTIME == 21

REFERENCE_TIMES(t_0_key) ==
    CASE t_0_key = "sunrise" -> 6
      [] t_0_key = "early morning" -> 7
      [] t_0_key = "morning" -> 9
      [] t_0_key = "midday" -> 12
      [] t_0_key = "afternoon" -> 16
      [] t_0_key = "evening" -> 20

\* Schedule.__init__( p, domain ): p gets t_0, and the key quantities are
\* calculated once.  A domain of None is the empty domain here: prune loops over
\* neither.
Schedule(p, domain) ==
    [ made |-> TRUE,
      p |-> [ t |-> p.t, tau |-> p.tau, T |-> p.T, L |-> p.L, d |-> p.d,
              t_0 |-> Rat(REFERENCE_TIMES(p.t_0_key), 1) ],
      domain |-> domain,
      full_duration_per_day |-> RMul(RDiv(p.T, p.t), RAdd(p.t, p.tau)),
      time_until_sleep |-> RSub(Rat(BEDTIME, 1), Rat(REFERENCE_TIMES(p.t_0_key), 1)),
      time_per_week |-> RMul(p.T, p.d) ]

\* A test of the domain that takes the bounds themselves as outside.
OutsideDomainExclusive(value, p_min, p_max) == RGe(p_min, value) \/ RGe(value, p_max)

\* The two tests of the loop over the domain: below p_min, or else above p_max.
OutsideDomain(value, p_min, p_max) == RGt(p_min, value) \/ RGt(value, p_max)

\* The loop over self.domain.items(): one message for a parameter outside.
RECURSIVE DomainInvalids(_, _)
DomainInvalids(p, items) ==
    IF items = <<>> THEN <<>>
    ELSE (IF OutsideDomain(p[items[1][1]], items[1][2][1], items[1][2][2])
          THEN << <<items[1][1], "outside domain", items[1][2][1], items[1][2][2]>> >>
          ELSE <<>>)
         \o DomainInvalids(p, Tail(items))

\* Schedule.prune(): the list of messages.
prune(sch) ==
    DomainInvalids(sch.p, sch.domain)
    \o (IF RGt(sch.full_duration_per_day, sch.time_until_sleep)
        THEN << <<"full_duration_per_day > time_until_sleep">> >> ELSE <<>>)
    \o (IF RGt(sch.p.L, sch.time_per_week)
        THEN << <<"time_per_week < L">> >> ELSE <<>>)
    \o (IF RGe(RSub(sch.time_per_week, sch.p.T), sch.p.L)
        THEN << <<"time_per_week - T >= L">> >> ELSE <<>>)

ConstructSchedule(p, domain) ==
    /\ schedule' = Schedule(p, domain)
    /\ ret' = Ret("Schedule", "", "", <<p, domain>>, Ok(Zero))
    /\ UNCHANGED <<criteria, critical_value, set_order, ships, heap, nextId>>

Prune ==
    /\ schedule.made
    /\ ret' = Ret("prune", "", "", <<>>, Ok(prune(schedule)))
    /\ UNCHANGED <<config, ships, heap, nextId>>

\* The schedule specification: a Schedule is constructed and pruned.
ScheduleParameters ==
    [ t : {Zero, One, Rat(2, 1)},
      tau : {Zero, One},
      T : {Zero, Rat(2, 1), Rat(4, 1)},
      L : {Rat(4, 1), Rat(8, 1)},
      d : {One, Rat(2, 1), Rat(3, 1)},
      t_0_key : {"morning", "evening"} ]

ScheduleDomains ==
    { <<>>,
      << <<"d", <<One, Rat(2, 1)>> >> >>,
      << <<"t", <<One, Rat(2, 1)>> >>, <<"d", <<Rat(3, 1), One>> >> >> }

InitSchedule == InitWith({DefaultCriteria}, {Rat(DefaultCriticalValue, 1)}, SortedOrder)

NextSchedule ==
    \/ \E p \in ScheduleParameters, domain \in ScheduleDomains : ConstructSchedule(p, domain)
    \/ Prune

SpecSchedule == InitSchedule /\ [][NextSchedule]_vars

\* The parameters of the schedule that are outside their domain.
OutOfDomain(sch) ==
    { i \in 1..Len(sch.domain) :
        ~( /\ RGe(sch.p[sch.domain[i][1]], sch.domain[i][2][1])
           /\ RGe(sch.domain[i][2][2], sch.p[sch.domain[i][1]]) ) }

\* The conditions on the time of the schedule that are violated: the sessions of
\* a day, T / t times t + tau, exceed the time until sleep; the time per week
\* T * d is below L; it is not below L + T.
TimeViolations(sch) ==
    { c \in {"day", "below L", "not below L + T"} :
        \/ /\ c = "day"
           /\ RGt(RMul(RDiv(sch.p.T, sch.p.t), RAdd(sch.p.t, sch.p.tau)),
                  RSub(Rat(BEDTIME, 1), sch.p.t_0))
        \/ c = "below L" /\ ~RGe(RMul(sch.p.T, sch.p.d), sch.p.L)
        \/ c = "not below L + T"
              /\ ~RGt(RAdd(sch.p.L, sch.p.T), RMul(sch.p.T, sch.p.d)) }

\* C30: Schedule.prune() returns one message for every parameter outside its
\* domain [min, max] (bounds inclusive, one message per parameter) and one for
\* every violated condition on the time, so it returns the empty list exactly
\* when every parameter with a domain is within it, full_duration_per_day does
\* not exceed time_until_sleep, and L <= T * d < L + T.
C30_PruneListsTheViolatedConditions ==
    ret.op = "prune" =>
        /\ Len(ret.val) = Cardinality(OutOfDomain(schedule))
                            + Cardinality(TimeViolations(schedule))
        /\ \A i \in OutOfDomain(schedule) :
              Cardinality({ k \in 1..Len(ret.val) :
                              ret.val[k][1] = schedule.domain[i][1] }) = 1
        /\ (ret.val = <<>>) <=>
              (OutOfDomain(schedule) = {} /\ TimeViolations(schedule) = {})

\* C30's case: a schedule with a parameter on the upper bound of its domain and
\* T * d = L is pruned to the empty list.
C30_Witness ==
    /\ ret.op = "prune" /\ ret.val = <<>>
    /\ schedule.domain # <<>>
    /\ schedule.p.d = schedule.domain[1][2][2]
    /\ RMul(schedule.p.T, schedule.p.d) = schedule.p.L

\* C30's other case: a parameter outside a domain whose min is above its max, and
\* a day too long, give one message each.
C30_WitnessMessages ==
    /\ ret.op = "prune"
    /\ Len(schedule.domain) = 2
    /\ schedule.p.d = Rat(2, 1)
    /\ OutOfDomain(schedule) = {2}
    /\ TimeViolations(schedule) = {"day"}
    /\ Len(ret.val) = 2

====
